---- MODULE Spec2Model ----
(***************************************************************************)
(* A model of the Java grammar of src/grammar.js: the rule graph, the      *)
(* precedence table and the conflict declarations, run by a shift-reduce   *)
(* parser that resolves shift/reduce choices the way the grammar's         *)
(* prec / prec.left / prec.right annotations prescribe and forks at the    *)
(* declared conflicts.                                                      *)
(***************************************************************************)
EXTENDS Integers, Sequences, FiniteSets, TLC

VARIABLES
    input,   \* the token (or character) sequence being read
    pos,     \* number of elements of input consumed so far
    stack,   \* parse stack: sequence of [sym, node]
    mode,    \* "parsing" | "accepted"; "reading" while rules are registered;
             \* "lexing" | "lexed" while a text is only lexed
    token,   \* the lookahead token as the lexer produced it: [sym, text, len]
    owners,  \* the <<supertype, alternative>> pairs read from the rule graph
    matches, \* the matches of the token rules where tokens were lexed:
             \* records [sym, from, len]
    bindings \* the <<rule, field, kinds>> triples read from the rules: the
             \* node kinds one occurrence of a field name can label

vars == <<input, pos, stack, mode, token, owners, matches, bindings>>

-----------------------------------------------------------------------------
(* Bounds of the model *)

\* number of operators in a generated operator chain  a op b op c ...
MaxOps == 2
\* number of separators in a generated ternary/assignment chain
MaxTernaryOps == 4
\* length of a generated parenthesis/identifier token sequence
MaxParenLen == 4
\* number of members (labels, rules, statements) in a generated switch body
MaxSwitchMembers == 3
\* number of formal parameters of a generated record declaration
MaxParams == 2
\* number of characters between the quotes of a generated string literal
MaxContent == 4
\* number of characters in the body of a generated text block
MaxBody == 5
\* most increment/decrement operators on one side of an operand
MaxUpdates == 2
\* most catch and finally clauses after the body of a try
MaxClauses == 3
\* most names after 'with' or 'to' in a module directive
MaxProviders == 3
\* longest text lexed as a numeric literal
MaxLiteral == 4
\* longest text over the characters of decimal_integer_literal
MaxDecimal == 5
\* longest text lexed as a comment
MaxComment == 7

-----------------------------------------------------------------------------
(* The precedence table, src/grammar.js PREC *)

PREC == [ COMMENT |-> 0, ASSIGN |-> 1, DECL |-> 2, ELEMENT_VAL |-> 2,
          TERNARY |-> 3, OR |-> 4, AND |-> 5, BIT_OR |-> 6, BIT_XOR |-> 7,
          BIT_AND |-> 8, EQUALITY |-> 9, GENERIC |-> 10, REL |-> 10,
          SHIFT |-> 11, ADD |-> 12, MULT |-> 13, CAST |-> 14, OBJ_INST |-> 14,
          UNARY |-> 15, ARRAY |-> 16, OBJ_ACCESS |-> 16, PARENS |-> 16,
          CLASS_LITERAL |-> 17 ]

\* A table with two levels exchanged, as a slip in the table would leave it.
binary_expression_swapped ==
    << <<">", PREC.REL>>, <<"<", PREC.REL>>, <<">=", PREC.REL>>,
       <<"<=", PREC.REL>>, <<"==", PREC.EQUALITY>>, <<"!=", PREC.EQUALITY>>,
       <<"&&", PREC.AND>>, <<"||", PREC.OR>>, <<"+", PREC.MULT>>,
       <<"-", PREC.MULT>>, <<"*", PREC.ADD>>, <<"/", PREC.ADD>>,
       <<"&", PREC.BIT_AND>>, <<"|", PREC.BIT_OR>>, <<"^", PREC.BIT_XOR>>,
       <<"%", PREC.ADD>>, <<"<<", PREC.SHIFT>>, <<">>", PREC.SHIFT>>,
       <<">>>", PREC.SHIFT>> >>

\* The operator/precedence pairs of binary_expression, in source order.
binary_expression ==
    << <<">", PREC.REL>>, <<"<", PREC.REL>>, <<">=", PREC.REL>>,
       <<"<=", PREC.REL>>, <<"==", PREC.EQUALITY>>, <<"!=", PREC.EQUALITY>>,
       <<"&&", PREC.AND>>, <<"||", PREC.OR>>, <<"+", PREC.ADD>>,
       <<"-", PREC.ADD>>, <<"*", PREC.MULT>>, <<"/", PREC.MULT>>,
       <<"&", PREC.BIT_AND>>, <<"|", PREC.BIT_OR>>, <<"^", PREC.BIT_XOR>>,
       <<"%", PREC.MULT>>, <<"<<", PREC.SHIFT>>, <<">>", PREC.SHIFT>>,
       <<">>>", PREC.SHIFT>> >>

BinaryOperators == { binary_expression[i][1] : i \in DOMAIN binary_expression }

BinaryPrecedence(op) ==
    LET i == CHOOSE j \in DOMAIN binary_expression : binary_expression[j][1] = op
    IN  binary_expression[i][2]

binary_expression_assoc_right == "right"
\* prec.left(precedence, seq(left, operator, right))
binary_expression_assoc == "left"

ternary_expression_assoc_left == "left"
\* prec.right(PREC.TERNARY, ...)
ternary_expression_assoc == "right"

\* prec.right(PREC.ASSIGN, ...)
assignment_expression_assoc == "right"

\* prec.left(PREC.UNARY, choice(...)) of update_expression
update_expression_assoc == "left"

\* the operators of update_expression
UpdateOperators == {"++", "--"}

AssignmentOperators ==
    {"=", "+=", "-=", "*=", "/=", "&=", "|=", "^=", "%=", "<<=", ">>=", ">>>="}

-----------------------------------------------------------------------------
(* Syntax-tree nodes *)

Identifiers ==
    {"a", "b", "c", "d", "e", "f", "g", "Foo", "bar", "x", "y", "Point"}

\* the spellings of _reserved_identifier
ReservedWords == {"open", "module", "record", "with", "sealed", "yield"}

\* DIGITS: '0', or /[1-9]/ followed by digits
DecimalDigits == {"0", "1", "2", "3", "4", "5", "6", "7", "8", "9"}
OctalDigits == {"0", "1", "2", "3", "4", "5", "6", "7"}
HexDigits == DecimalDigits \cup {"a", "b", "c", "d", "e", "f",
                                 "A", "B", "C", "D", "E", "F"}

\* the characters that delimit and structure the string literals
Quote == "\""
TripleQuote == "\"\"\""
Backslash == "\\"
Newline == "\n"
InterpolationOpen == "\\{"

\* the symbols a name may have on the stack: choice($.identifier,
\* $._reserved_identifier)
NameSyms == {"identifier", "_reserved_identifier"}

\* the tokens that start such a name
NameTokens == {"identifier"} \cup ReservedWords

Leaf(k, t) == [kind |-> k, text |-> t]

BinaryNode(l, op, r) ==
    [kind |-> "binary_expression", left |-> l, operator |-> op, right |-> r]

AssignmentNode(l, op, r) ==
    [kind |-> "assignment_expression", left |-> l, operator |-> op, right |-> r]

\* update_expression has no fields: its children in source order, the
\* operator an anonymous token.
PostfixUpdateNode(e, op) ==
    [kind |-> "update_expression", children |-> <<e, Leaf("token", op)>>]

PrefixUpdateNode(op, e) ==
    [kind |-> "update_expression", children |-> <<Leaf("token", op), e>>]

TernaryNode(c, t, e) ==
    [kind |-> "ternary_expression", condition |-> c, consequence |-> t,
     alternative |-> e]

\* the two field labels exchanged
CastNodeSwapped(ts, v) ==
    [kind |-> "cast_expression", type |-> <<v>>, value |-> ts[1]]
\* cast_expression: field('type', ...), field('value', ...); the type field
\* holds one node per type of the intersection
CastNode(ts, v) == [kind |-> "cast_expression", type |-> ts, value |-> v]

ParenNode(e) == [kind |-> "parenthesized_expression", expression |-> e]

LambdaNode(ps, b) ==
    [kind |-> "lambda_expression", parameters |-> ps, body |-> b]

\* switch_label: 'case' with its expressions, or 'default' with none
SwitchLabelNode(es) == [kind |-> "switch_label", values |-> es]

SwitchGroupNode(l, ss) ==
    [kind |-> "switch_block_statement_group", label |-> l, statements |-> ss]

SwitchRuleNode(l, b) == [kind |-> "switch_rule", label |-> l, body |-> b]

SwitchBlockNode(ms) == [kind |-> "switch_block", members |-> ms]

SwitchNode(c, b) == [kind |-> "switch_expression", condition |-> c, body |-> b]

BlockNode(ss) == [kind |-> "block", statements |-> ss]

ExpressionStatementNode(e) == [kind |-> "expression_statement", expression |-> e]

ThrowNode(e) == [kind |-> "throw_statement", expression |-> e]

\* variable_declarator: field('name', ...), optional field('value', ...)
VariableDeclaratorNode(n, v) ==
    [kind |-> "variable_declarator", name |-> n, value |-> v]

LocalVariableDeclarationNode(t, ds) ==
    [kind |-> "local_variable_declaration", type |-> t, declarators |-> ds]

FormalParameterNode(t, n) == [kind |-> "formal_parameter", type |-> t, name |-> n]

FormalParametersNode(ps) == [kind |-> "formal_parameters", parameters |-> ps]

ClassBodyNode(ms) == [kind |-> "class_body", members |-> ms]

RecordDeclarationNode(n, ps, b) ==
    [kind |-> "record_declaration", name |-> n, parameters |-> ps, body |-> b]

ClassDeclarationNode(n, b) == [kind |-> "class_declaration", name |-> n, body |-> b]

LabeledNode(l, st) == [kind |-> "labeled_statement", label |-> l, statement |-> st]

\* break_statement / continue_statement: keyword optional($.identifier) ';'
JumpNode(kw, l) ==
    [kind |-> IF kw = "break" THEN "break_statement" ELSE "continue_statement",
     label |-> l]

YieldNode(e) == [kind |-> "yield_statement", expression |-> e]

\* the reserved word kept as an anonymous token
ReservedNodeUnaliased(t) == Leaf("token", t)
\* _reserved_identifier: alias(choice('open', ...), $.identifier)
ReservedNode(t) == Leaf("identifier", t)

\* string_literal: the fragments, escape sequences and interpolations between
\* the quotes, in source order
StringLiteralNode(cs) == [kind |-> "string_literal", children |-> cs]

StringInterpolationNode(e) == [kind |-> "string_interpolation", expression |-> e]

\* A stack entry: the grammar symbol and the node built for it.
Entry(s, n) == [sym |-> s, node |-> n]

\* The stack entry of a shifted token: named tokens keep their kind, the
\* anonymous ones (keywords, punctuation) are plain tokens.
Token(t) ==
    IF t.sym \in {"identifier", "decimal_integer_literal", "string_fragment",
                  "escape_sequence"}
    THEN Entry(t.sym, Leaf(t.sym, t.text))
    ELSE Entry(t.sym, Leaf("token", t.text))

-----------------------------------------------------------------------------
(* Parser state helpers *)

Depth == Len(stack)
Top(k) == stack[Depth - k]          \* Top(0) is the top of the stack
HasTop(k) == Depth > k
Pop(k) == SubSeq(stack, 1, Depth - k)
AtEnd == pos = Len(input)
Lookahead == token.sym

IsSym(k, s) == HasTop(k) /\ Top(k).sym = s
IsExpr(k) == IsSym(k, "expression")

\* sep1(field('type', $._type), '&') read downwards from stack entry k to the
\* opening parenthesis: the type nodes in source order, <<>> when the entries
\* from k down are not  '(' _type ('&' _type)*.
RECURSIVE TypeRun(_)
TypeRun(k) ==
    IF ~IsSym(k, "_type") THEN <<>>
    ELSE IF IsSym(k + 1, "(") THEN <<Top(k).node>>
    ELSE IF IsSym(k + 1, "&") /\ TypeRun(k + 2) # <<>>
         THEN Append(TypeRun(k + 2), Top(k).node)
    ELSE <<>>

\* '(' types ')' is on top of the stack below entry k.
CastPrefix(k) == IsSym(k, ")") /\ TypeRun(k + 1) # <<>>

\* The completed production on top of the stack, if any, that a shift of an
\* operator after its last expression would compete with: its precedence and
\* associativity, <<-1, "none">> when there is none.
Completed ==
    IF IsExpr(0) /\ HasTop(2) /\ Top(1).sym \in BinaryOperators /\ IsExpr(2)
      THEN <<BinaryPrecedence(Top(1).sym), binary_expression_assoc>>
    ELSE IF IsExpr(0) /\ HasTop(1) /\ Top(1).sym \in UpdateOperators
      THEN <<PREC.UNARY, update_expression_assoc>>
    ELSE IF IsExpr(0) /\ HasTop(2) /\ Top(1).sym \in AssignmentOperators
            /\ Top(2).sym \in NameSyms
      THEN <<PREC.ASSIGN, assignment_expression_assoc>>
    ELSE IF IsExpr(0) /\ IsSym(1, ":") /\ IsExpr(2) /\ IsSym(3, "?") /\ IsExpr(4)
      THEN <<PREC.TERNARY, ternary_expression_assoc>>
    ELSE IF IsExpr(0) /\ CastPrefix(1) /\ Len(TypeRun(2)) = 1
      THEN <<PREC.CAST, "none">>
    ELSE IF IsExpr(0) /\ IsSym(1, "->") /\ HasTop(2) /\ Top(2).sym \in NameSyms
      THEN <<0, "none">>
    ELSE <<-1, "none">>

\* Precedence of the productions that continue an expression with token t.
ShiftPrecedence(t) ==
    IF t \in BinaryOperators THEN BinaryPrecedence(t)
    ELSE IF t = "?" THEN PREC.TERNARY
    ELSE IF t \in UpdateOperators THEN PREC.UNARY
    ELSE -1

\* Shift/reduce resolution: the reduction wins when its production has the
\* higher precedence, or the same precedence and left associativity; the
\* shift wins when it has the higher precedence, or the same precedence and
\* the production is right associative.
ReduceWins(t) ==
    \/ ShiftPrecedence(t) = -1
    \/ Completed[1] > ShiftPrecedence(t)
    \/ Completed[1] = ShiftPrecedence(t) /\ Completed[2] = "left"

ShiftWins(t) ==
    \/ Completed[1] = -1
    \/ Completed[1] < ShiftPrecedence(t)
    \/ Completed[1] = ShiftPrecedence(t) /\ Completed[2] = "right"

\* Index of the innermost brace still open among the first n stack entries
\* (a closed brace pair is reduced at once), 0 when there is none.
RECURSIVE OpenBrace(_)
OpenBrace(n) ==
    IF n = 0 THEN 0
    ELSE IF stack[n].sym = "{" THEN n
    ELSE OpenBrace(n - 1)

\* switch_expression: 'switch' parenthesized_expression switch_block
IsSwitchBrace(b) ==
    /\ b > 2
    /\ stack[b - 1].sym = "parenthesized_expression"
    /\ stack[b - 2].sym = "switch"

\* class_body: the '{' after 'class' identifier or after a record's
\* formal_parameters
IsClassBrace(b) ==
    \/ b > 1 /\ stack[b - 1].sym = "formal_parameters"
    \/ b > 2 /\ stack[b - 1].sym = "identifier" /\ stack[b - 2].sym = "class"

\* module_body: the '{' after 'module' name
IsModuleBrace(b) ==
    b > 2 /\ stack[b - 1].sym = "identifier" /\ stack[b - 2].sym = "module"

InSwitchBody(n) == OpenBrace(n) > 0 /\ IsSwitchBrace(OpenBrace(n))
InBlock(n) ==
    /\ OpenBrace(n) > 0
    /\ ~IsSwitchBrace(OpenBrace(n))
    /\ ~IsClassBrace(OpenBrace(n))
    /\ ~IsModuleBrace(OpenBrace(n))

\* Index of the keyword of the module directive being read among the first
\* n stack entries (a directive is reduced at its ';'), 0 when there is none.
RECURSIVE OpenDirective(_)
OpenDirective(n) ==
    IF n = 0 THEN 0
    ELSE IF stack[n].sym \in {"provides", "exports", "opens"} THEN n
    ELSE OpenDirective(n - 1)

\* a name of the list after 'with' or 'to' is on top of the stack
ListedName ==
    /\ OpenDirective(Depth) > 0
    /\ IsSym(0, "identifier")
    /\ HasTop(1) /\ Top(1).sym \in {"with", "to", ","}

\* Index of the innermost '(' among the first n stack entries.
RECURSIVE OpenParen(_)
OpenParen(n) ==
    IF n = 0 THEN 0
    ELSE IF stack[n].sym = "(" THEN n
    ELSE OpenParen(n - 1)

\* formal_parameters: positions where a formal_parameter starts, after the
\* '(' that follows a record's name or after the ',' of the list.
ParamStartAt(n) ==
    \/ /\ n > 2
       /\ stack[n].sym = "("
       /\ stack[n - 1].sym = "identifier"
       /\ stack[n - 2].sym = "record"
    \/ n > 1 /\ stack[n].sym = "," /\ stack[n - 1].sym = "formal_parameter"

\* the '(' of a resource_specification or of a catch_clause
TryParenAt(n) ==
    n > 1 /\ stack[n].sym = "(" /\ stack[n - 1].sym \in {"try", "catch"}

\* Index of the innermost 'try' not yet reduced among the first n stack
\* entries, 0 when there is none.
RECURSIVE OpenTry(_)
OpenTry(n) ==
    IF n = 0 THEN 0
    ELSE IF stack[n].sym = "try" THEN n
    ELSE OpenTry(n - 1)

\* try_statement: choice(repeat1($.catch_clause),
\*                       seq(repeat($.catch_clause), $.finally_clause))
\* over the kinds of the clauses after the body
try_statement(cs) ==
    /\ Len(cs) >= 1
    /\ \A i \in 1..(Len(cs) - 1) : cs[i] = "catch_clause"
    /\ cs[Len(cs)] \in {"catch_clause", "finally_clause"}

\* the clauses of a plain try
try_with_resources_statement_as_try(cs) ==
    /\ Len(cs) >= 1
    /\ \A i \in 1..(Len(cs) - 1) : cs[i] = "catch_clause"
    /\ cs[Len(cs)] \in {"catch_clause", "finally_clause"}

\* try_with_resources_statement: repeat($.catch_clause),
\*                               optional($.finally_clause)
try_with_resources_statement(cs) ==
    /\ \A i \in 1..(Len(cs) - 1) : cs[i] = "catch_clause"
    /\ Len(cs) >= 1 => cs[Len(cs)] \in {"catch_clause", "finally_clause"}

Syms(i, j) == [k \in 1..(j - i + 1) |-> stack[i + k - 1].sym]
Nodes(i, j) == [k \in 1..(j - i + 1) |-> stack[i + k - 1].node]

\* any interleaving of the two member kinds
switch_block_mixed(ms) ==
    \A i \in DOMAIN ms : ms[i] \in {"switch_block_statement_group", "switch_rule"}
\* switch_block: choice(repeat($.switch_block_statement_group),
\*                      repeat($.switch_rule))  over the kinds of the members
switch_block(ms) ==
    \/ \A i \in DOMAIN ms : ms[i] = "switch_block_statement_group"
    \/ \A i \in DOMAIN ms : ms[i] = "switch_rule"

\* The members of the open switch block below a label on top of the stack,
\* followed by the member the label would start.
MembersWith(kind) == Append(Syms(OpenBrace(Depth) + 1, Depth - 1), kind)

\* Positions (after the first n stack entries) where a statement may start:
\* the start of the input, inside a block, or inside a statement group.
\* and after the label of a labeled_statement, which takes one statement.
LabelledAt(n) ==
    n > 2 /\ stack[n - 1].sym = ":" /\ stack[n - 2].sym = "identifier"

RECURSIVE StmtStartAt(_)
StmtStartAt(n) ==
    \/ n = 0
    \/ n > 0 /\ InBlock(n) /\ stack[n].sym = "{"
    \/ n > 0 /\ InBlock(n) /\ stack[n].sym = "statement" /\ ~LabelledAt(n)
    \/ n > 1 /\ InSwitchBody(n)
             /\ \/ stack[n].sym = ":" /\ stack[n - 1].sym = "switch_label"
                \/ stack[n].sym = "statement" /\ ~LabelledAt(n)
    \/ /\ n > 1
       /\ stack[n].sym = ":"
       /\ stack[n - 1].sym = "identifier"
       /\ StmtStartAt(n - 2)

\* switch_rule: after switch_label '->'
RuleBodyAt(n) ==
    n > 1 /\ stack[n].sym = "->" /\ stack[n - 1].sym = "switch_label"

\* lambda_expression: after identifier '->'
LambdaBodyAt(n) ==
    n > 1 /\ stack[n].sym = "->" /\ stack[n - 1].sym \in NameSyms

\* Positions where an expression may start.
ExprStartAt(n) ==
    \/ StmtStartAt(n)
    \/ RuleBodyAt(n)
    \/ LambdaBodyAt(n)
    \/ n > 0 /\ stack[n].sym \in
                  BinaryOperators \cup AssignmentOperators
                      \cup {"?", "case", "throw", InterpolationOpen}
    \/ n > 0 /\ stack[n].sym = "(" /\ ~ParamStartAt(n) /\ ~TryParenAt(n)
    \/ n > 0 /\ stack[n].sym \in UpdateOperators
             /\ (IF n = 1 THEN TRUE ELSE stack[n - 1].sym # "expression")
    \/ n > 0 /\ stack[n].sym = "yield" /\ StmtStartAt(n - 1)
    \/ n > 1 /\ stack[n].sym = ":" /\ stack[n - 1].sym = "expression"
    \/ n > 0 /\ CastPrefix(Depth - n)

AtExpressionStart == ExprStartAt(Depth)

\* A position where a type of a cast may start.
AtTypeStart ==
    \/ IsSym(0, "(") /\ ~ParamStartAt(Depth) /\ ~TryParenAt(Depth)
    \/ IsSym(0, "&") /\ TypeRun(1) # <<>>

\* A reserved spelling is looked up as a keyword after the word token
\* (word: $ => $.identifier) has matched it, and the keyword is taken only
\* where the parser's state has an action for it: where an expression may
\* start (primary_expression: $._reserved_identifier, and the statements and
\* declarations the keywords open) and where a declarator's name follows.
DeclaratorNameNext ==
    /\ HasTop(0)
    /\ Top(0).sym \in {"int", "identifier"}
    /\ StmtStartAt(Depth - 1) \/ ParamStartAt(Depth - 1)

KeywordValid == AtExpressionStart \/ DeclaratorNameNext

\* The element of the input at index i, "$end" past its end.
CharAt(i) == IF i <= Len(input) THEN input[i] ELSE "$end"

RECURSIVE Cat(_)
Cat(cs) == IF cs = <<>> THEN "" ELSE Head(cs) \o Cat(Tail(cs))

\* The text of the next n elements of the input.
Text(n) == Cat(SubSeq(input, pos + 1, pos + n))

\* The symbols between the delimiters of a string literal: the tokens as
\* shifted, and what they are reduced to.
ContentSyms ==
    {"string_fragment", "escape_sequence", "string_interpolation",
     "_multiline_string_fragment_1", "_multiline_string_fragment_2",
     "escape_token", "multiline_string_fragment", "_escape_sequence"}

\* Stack entry n is a quote that opens a literal (a closing one follows the
\* opening one or the literal's content).
IsOpening(n) ==
    /\ n > 0
    /\ stack[n].sym \in {Quote, TripleQuote}
    /\ n > 1 => stack[n - 1].sym \notin ContentSyms \cup {Quote, TripleQuote}

\* Index of the opening quote of the literal whose content the first n stack
\* entries end in, 0 when they do not end inside a literal.
RECURSIVE StringOpener(_)
StringOpener(n) ==
    IF n = 0 THEN 0
    ELSE IF stack[n].sym \in ContentSyms THEN StringOpener(n - 1)
    ELSE IF /\ n > 2
            /\ stack[n].sym = "}"
            /\ stack[n - 1].sym = "expression"
            /\ stack[n - 2].sym = InterpolationOpen
      THEN StringOpener(n - 3)
    ELSE IF IsOpening(n) THEN n
    ELSE 0

\* The lexer's state follows the parser's: the content of a _string_literal,
\* the content of a _multiline_string_literal, or code.
LexState ==
    IF StringOpener(Depth) = 0 THEN "code"
    ELSE IF stack[StringOpener(Depth)].sym = Quote THEN "string"
    ELSE "text_block"

\* a bare pattern in place of the string
string_interpolation_open_pattern ==
    [sym |-> InterpolationOpen, form |-> "pattern", prec |-> 0, line |-> 206]
\* The lexical rules of the string literals: the symbol, the form of the rule
\* (a string, a token(...) or a bare pattern), its explicit precedence and
\* its line in the grammar.
string_interpolation_open ==
    [sym |-> InterpolationOpen, form |-> "string", prec |-> 0, line |-> 206]
string_fragment ==
    [sym |-> "string_fragment", form |-> "token", prec |-> 1, line |-> 199]
escape_sequence ==
    [sym |-> "escape_sequence", form |-> "token", prec |-> 0, line |-> 215]
escape_token ==
    [sym |-> "escape_token", form |-> "token", prec |-> 0, line |-> 212]
multiline_string_fragment_1 ==
    [sym |-> "_multiline_string_fragment_1", form |-> "pattern", prec |-> 0,
     line |-> 201]
multiline_string_fragment_2 ==
    [sym |-> "_multiline_string_fragment_2", form |-> "pattern", prec |-> 0,
     line |-> 202]
string_close == [sym |-> Quote, form |-> "string", prec |-> 0, line |-> 184]
multiline_string_close ==
    [sym |-> TripleQuote, form |-> "string", prec |-> 0, line |-> 193]

\* When two rules match the same text at equal explicit precedence, a string
\* is preferred to a token(...) and a token(...) to a bare pattern.
ImplicitPrecedence(form) ==
    CASE form = "string" -> 2
      [] form = "token" -> 1
      [] form = "pattern" -> 0

\* any character but the backslash
multiline_string_fragment_char_any(c) == c \notin {Backslash, "$end"}
\* the character class [^"\\] of _multiline_string_fragment
multiline_string_fragment_char(c) == c \notin {Quote, Backslash, "$end"}

\* the character class [^"\\] of string_fragment
string_fragment_char(c) == c \notin {Quote, Backslash, "$end"}

\* /[^"\\]+/ from index i: the number of characters matched
RECURSIVE StringRun(_)
StringRun(i) == IF string_fragment_char(CharAt(i)) THEN 1 + StringRun(i + 1) ELSE 0

RECURSIVE PlainRun(_)
PlainRun(i) ==
    IF multiline_string_fragment_char(CharAt(i)) THEN 1 + PlainRun(i + 1) ELSE 0

\* /([^"\\]|\\")*/ from index i
RECURSIVE QuotedRun(_)
QuotedRun(i) ==
    IF multiline_string_fragment_char(CharAt(i)) THEN 1 + QuotedRun(i + 1)
    ELSE IF CharAt(i) = Backslash /\ CharAt(i + 1) = Quote
      THEN 2 + QuotedRun(i + 2)
    ELSE 0

\* the number of characters from index i on that are in the set cs
RECURSIVE RunOf(_, _)
RunOf(i, cs) == IF CharAt(i) \in cs THEN 1 + RunOf(i + 1, cs) ELSE 0

Min(a, b) == IF a < b THEN a ELSE b

\* escape_sequence from the backslash at index i: '\\' followed by /[^xu0-7]/,
\* /[0-7]{1,3}/, /x[0-9a-fA-F]{2}/, /u[0-9a-fA-F]{4}/ or /u\{[0-9a-fA-F]+\}/
EscapeLength(i) ==
    LET c == CharAt(i + 1) IN
    IF c = "$end" THEN 0
    ELSE IF c \in OctalDigits THEN 1 + Min(3, RunOf(i + 1, OctalDigits))
    ELSE IF c = "x" THEN IF RunOf(i + 2, HexDigits) >= 2 THEN 4 ELSE 0
    ELSE IF c = "u"
      THEN IF RunOf(i + 2, HexDigits) >= 4 THEN 6
           ELSE IF /\ CharAt(i + 2) = "{"
                   /\ RunOf(i + 3, HexDigits) > 0
                   /\ CharAt(i + 3 + RunOf(i + 3, HexDigits)) = "}"
             THEN 4 + RunOf(i + 3, HexDigits)
           ELSE 0
    ELSE 2

\* The number of characters the rule matches at the lexer's position, 0 when
\* it does not match.
MatchLength(rule) ==
    LET i == pos + 1
        c == CharAt(i)
    IN CASE rule.sym = "string_fragment" -> StringRun(i)
         [] rule.sym = "_multiline_string_fragment_1" -> PlainRun(i)
         [] rule.sym = "_multiline_string_fragment_2" ->
                IF c = Quote THEN 1 + QuotedRun(i + 1) ELSE 0
         [] rule.sym = "escape_sequence" ->
                IF c = Backslash THEN EscapeLength(i) ELSE 0
         [] rule.sym = "escape_token" ->
                IF /\ c = Backslash
                   /\ CharAt(i + 1) \notin
                        {"b", "f", "n", "r", "t", "s", "'", Quote, Backslash, "$end"}
                THEN 2 ELSE 0
         [] rule.sym = InterpolationOpen ->
                IF c = Backslash /\ CharAt(i + 1) = "{" THEN 2 ELSE 0
         [] rule.sym = Quote -> IF c = Quote THEN 1 ELSE 0
         [] rule.sym = TripleQuote ->
                IF c = Quote /\ CharAt(i + 1) = Quote /\ CharAt(i + 2) = Quote
                THEN 3 ELSE 0

\* The rules valid in the content of a literal.
ContentRules ==
    IF LexState = "string"
      THEN {string_fragment, escape_sequence, string_interpolation_open,
            string_close}
    ELSE {multiline_string_fragment_1, multiline_string_fragment_2,
          escape_token, escape_sequence, string_interpolation_open,
          multiline_string_close}

Candidates == { r \in ContentRules : MatchLength(r) > 0 }

\* The longest match wins; among rules that match the same text the higher
\* explicit precedence, then the higher implicit precedence, then the rule
\* that comes first in the grammar.
Preferred(a, b) ==
    LET ka == <<MatchLength(a), a.prec, ImplicitPrecedence(a.form), 0 - a.line>>
        kb == <<MatchLength(b), b.prec, ImplicitPrecedence(b.form), 0 - b.line>>
    IN \E k \in 1..4 : ka[k] > kb[k] /\ \A j \in 1..(k - 1) : ka[j] = kb[j]

LexContent ==
    IF Candidates = {}
      THEN [sym |-> "ERROR", text |-> input[pos + 1], len |-> 1]
    ELSE LET best == CHOOSE a \in Candidates :
                        \A b \in Candidates \ {a} : Preferred(a, b)
         IN [sym |-> best.sym, text |-> Text(MatchLength(best)),
             len |-> MatchLength(best)]

\* decimal_integer_literal: DIGITS
DecimalLength(i) ==
    IF CharAt(i) = "0" THEN 1 ELSE 1 + RunOf(i + 1, DecimalDigits)

LexCode ==
    LET w == input[pos + 1] IN
    IF w = Quote
      THEN IF CharAt(pos + 2) = Quote /\ CharAt(pos + 3) = Quote
           THEN [sym |-> TripleQuote, text |-> TripleQuote, len |-> 3]
           ELSE [sym |-> Quote, text |-> Quote, len |-> 1]
    ELSE IF w \in DecimalDigits
      THEN [sym |-> "decimal_integer_literal",
            text |-> Text(DecimalLength(pos + 1)),
            len |-> DecimalLength(pos + 1)]
    ELSE IF w \in ReservedWords
      THEN [sym |-> IF \/ KeywordValid
                       \/ w = "with" /\ IsSym(0, "identifier")
                                     /\ IsSym(1, "provides")
                    THEN w ELSE "identifier",
            text |-> w, len |-> 1]
    ELSE IF w \in Identifiers THEN [sym |-> "identifier", text |-> w, len |-> 1]
    ELSE [sym |-> w, text |-> w, len |-> 1]

NextToken ==
    IF AtEnd THEN [sym |-> "$end", text |-> "", len |-> 0]
    ELSE IF LexState = "code" THEN LexCode
    ELSE LexContent

\* The tokens the grammar allows next, given the stack.
CanShift(t) ==
    IF t = "identifier"
      THEN \/ AtExpressionStart \/ AtTypeStart \/ ParamStartAt(Depth)
           \/ TryParenAt(Depth)
           \/ IsSym(0, "catch_type")
           \/ IsSym(0, "module") /\ StmtStartAt(Depth - 1)
           \/ HasTop(0) /\ Top(0).sym \in {"provides", "exports", "opens"}
           \/ HasTop(0) /\ Top(0).sym \in {"with", "to", ","}
                        /\ OpenDirective(Depth) > 0
           \/ HasTop(0) /\ Top(0).sym \in {"class", "break", "continue"}
           \/ IsSym(0, "record") /\ StmtStartAt(Depth - 1)
           \/ IsSym(0, "_unannotated_type")
    ELSE IF t \in ReservedWords
      THEN \/ AtExpressionStart \/ IsSym(0, "_unannotated_type")
           \/ t = "with" /\ IsSym(0, "identifier") /\ IsSym(1, "provides")
    ELSE IF t \in {"provides", "exports", "opens"}
      THEN /\ OpenBrace(Depth) > 0 /\ IsModuleBrace(OpenBrace(Depth))
           /\ Top(0).sym \in {"{", "module_directive"}
    ELSE IF t = "to"
      THEN IsSym(0, "identifier") /\ HasTop(1) /\ Top(1).sym \in {"exports", "opens"}
    ELSE IF t = "decimal_integer_literal" THEN AtExpressionStart
    ELSE IF t \in {Quote, TripleQuote} /\ LexState = "code"
      THEN AtExpressionStart
    ELSE IF t \in {Quote, "string_fragment", "escape_sequence", InterpolationOpen}
            /\ LexState = "string"
      THEN Top(0).sym \in
              {Quote, "string_fragment", "escape_sequence", "string_interpolation"}
    ELSE IF t \in {TripleQuote, "_multiline_string_fragment_1",
                   "_multiline_string_fragment_2", "escape_token",
                   "escape_sequence", InterpolationOpen}
            /\ LexState = "text_block"
      THEN Top(0).sym \in
              {TripleQuote, "multiline_string_fragment", "_escape_sequence",
               "string_interpolation"}
    ELSE IF t = "int" THEN StmtStartAt(Depth) \/ ParamStartAt(Depth)
    ELSE IF t \in {"class", "break", "continue", "try"} THEN StmtStartAt(Depth)
    ELSE IF t = "catch"
      THEN \/ IsSym(0, "block") /\ IsSym(1, "try")
           \/ IsSym(0, "block") /\ IsSym(1, "resource_specification")
           \/ IsSym(0, "catch_clause")
    ELSE IF t = "finally"
      THEN \/ IsSym(0, "block") /\ IsSym(1, "try")
           \/ IsSym(0, "block") /\ IsSym(1, "resource_specification")
           \/ IsSym(0, "catch_clause")
    ELSE IF t = "("
      THEN \/ AtExpressionStart \/ AtTypeStart \/ IsSym(0, "switch")
           \/ IsSym(0, "try") \/ IsSym(0, "catch")
           \/ IsSym(0, "identifier") /\ IsSym(1, "record")
    ELSE IF t = "," THEN IsSym(0, "formal_parameter") \/ ListedName
    ELSE IF t = "switch" THEN AtExpressionStart
    ELSE IF t \in UpdateOperators
      THEN AtExpressionStart \/ (IsExpr(0) /\ ShiftWins(t))
    ELSE IF t \in BinaryOperators \cup {"?"}
      THEN \/ IsExpr(0) /\ ShiftWins(t)
           \/ t = "&" /\ TypeRun(0) # <<>>
    ELSE IF t \in AssignmentOperators
      THEN \/ HasTop(0) /\ Top(0).sym \in NameSyms /\ ExprStartAt(Depth - 1)
           \/ /\ t = "="
              /\ HasTop(0) /\ Top(0).sym \in NameSyms
              /\ IsSym(1, "_unannotated_type")
              /\ StmtStartAt(Depth - 2)
    ELSE IF t = ":"
      THEN \/ IsExpr(0) /\ IsSym(1, "?") /\ IsExpr(2)
           \/ IsSym(0, "identifier") /\ StmtStartAt(Depth - 1)
           \/ /\ IsSym(0, "switch_label")
              /\ switch_block(MembersWith("switch_block_statement_group"))
    ELSE IF t = "->"
      THEN \/ /\ IsSym(0, "switch_label")
              /\ switch_block(MembersWith("switch_rule"))
           \/ HasTop(0) /\ Top(0).sym \in NameSyms /\ ExprStartAt(Depth - 1)
    ELSE IF t = ")"
      THEN \/ IsExpr(0) /\ IsSym(1, "(")
           \/ TypeRun(0) # <<>>
           \/ IsSym(0, "formal_parameter")
           \/ IsSym(0, "resource") \/ IsSym(0, "catch_formal_parameter")
           \/ IsSym(0, "(") /\ ParamStartAt(Depth)
    ELSE IF t = "{"
      THEN \/ IsSym(0, "parenthesized_expression") /\ IsSym(1, "switch")
           \/ IsSym(0, "identifier") /\ IsSym(1, "class")
           \/ IsSym(0, "identifier") /\ IsSym(1, "module")
           \/ IsSym(0, "formal_parameters")
           \/ IsSym(0, "try") \/ IsSym(0, "resource_specification")
           \/ IsSym(0, "finally")
           \/ IsSym(0, ")") /\ IsSym(1, "catch_formal_parameter")
           \/ StmtStartAt(Depth) \/ RuleBodyAt(Depth) \/ LambdaBodyAt(Depth)
    ELSE IF t = "}"
      THEN \/ InBlock(Depth) /\ Top(0).sym \in {"{", "statement"}
           \/ InSwitchBody(Depth) /\ Top(0).sym \in
                 {"{", "switch_block_statement_group", "switch_rule"}
           \/ IsSym(0, "{") /\ IsClassBrace(Depth)
           \/ /\ OpenBrace(Depth) > 0 /\ IsModuleBrace(OpenBrace(Depth))
              /\ Top(0).sym \in {"{", "module_directive"}
           \/ IsExpr(0) /\ IsSym(1, InterpolationOpen)
    ELSE IF t \in {"case", "default"}
      THEN InSwitchBody(Depth) /\ Top(0).sym \in
                 {"{", "switch_block_statement_group", "switch_rule"}
    ELSE IF t = ";"
      THEN \/ IsExpr(0) /\ (StmtStartAt(Depth - 1) \/ RuleBodyAt(Depth - 1))
           \/ IsExpr(0) /\ IsSym(1, "throw")
           \/ IsExpr(0) /\ IsSym(1, "yield") /\ StmtStartAt(Depth - 2)
           \/ IsSym(0, "variable_declarator")
           \/ ListedName
           \/ IsSym(0, "identifier") /\ HasTop(1)
                 /\ Top(1).sym \in {"exports", "opens"}
           \/ HasTop(0) /\ Top(0).sym \in {"break", "continue"}
           \/ /\ IsSym(0, "identifier")
              /\ HasTop(1) /\ Top(1).sym \in {"break", "continue"}
           \/ StmtStartAt(Depth)
    ELSE IF t = "throw" THEN StmtStartAt(Depth) \/ RuleBodyAt(Depth)
    ELSE FALSE

-----------------------------------------------------------------------------
(* Parser actions *)

Reduce(k, s, n) ==
    /\ stack' = Append(Pop(k), Entry(s, n))
    /\ UNCHANGED <<input, pos, mode, token, owners, matches, bindings>>

\* The lookahead is consumed and the next token is lexed in the state the
\* parser is in after the shift.
Shift ==
    /\ mode = "parsing"
    /\ ~AtEnd
    /\ CanShift(Lookahead)
    /\ stack' = Append(stack, Token(token))
    /\ pos' = pos + token.len
    /\ UNCHANGED <<input, mode, owners, matches, bindings>>
    /\ token' = NextToken'

\* ':' follows an expression only inside a ternary_expression or a
\* switch_label.
ColonFollows == \E i \in 1..Depth : stack[i].sym \in {"?", "case"}

\* The tokens that may follow a name read as an expression.
ExpressionFollow ==
    BinaryOperators \cup AssignmentOperators \cup UpdateOperators
        \cup {"?", ";", ")", "->", "$end"}
        \cup (IF ColonFollows THEN {":"} ELSE {})
        \cup (IF \E i \in 1..Depth : stack[i].sym = InterpolationOpen
              THEN {"}"} ELSE {})

\* primary_expression: $.identifier | $._reserved_identifier; before '->'
\* only in a switch label, where the lambda reading stays possible (a
\* declared conflict).
ReducePrimaryIdentifier ==
    /\ mode = "parsing"
    /\ HasTop(0) /\ Top(0).sym \in NameSyms
    /\ ExprStartAt(Depth - 1)
    /\ Lookahead \in ExpressionFollow \ AssignmentOperators
    /\ Lookahead = "->" => IsSym(1, "case")
    /\ Reduce(1, "primary_expression", Top(0).node)

\* primary_expression: $._literal
ReduceLiteral ==
    /\ mode = "parsing"
    /\ HasTop(0) /\ Top(0).sym \in {"decimal_integer_literal", "string_literal"}
    /\ Reduce(1, "primary_expression", Top(0).node)

\* string_interpolation: '\\{' expression '}'
ReduceStringInterpolation ==
    /\ mode = "parsing"
    /\ IsSym(0, "}") /\ IsExpr(1) /\ IsSym(2, InterpolationOpen)
    /\ Reduce(3, "string_interpolation", StringInterpolationNode(Top(1).node))

\* _string_literal: '"' repeat(choice(string_fragment, escape_sequence,
\* string_interpolation)) '"'
ReduceStringLiteral ==
    /\ mode = "parsing"
    /\ IsSym(0, Quote) /\ ~IsOpening(Depth)
    /\ LET o == StringOpener(Depth - 1) IN
         /\ o > 0 /\ stack[o].sym = Quote
         /\ \A i \in (o + 1)..(Depth - 1) :
               stack[i].sym \in {"string_fragment", "escape_sequence",
                                 "string_interpolation"}
         /\ Reduce(Depth - o + 1, "string_literal",
                   StringLiteralNode(Nodes(o + 1, Depth - 1)))

\* alias($._multiline_string_fragment, $.multiline_string_fragment)
ReduceMultilineFragment ==
    /\ mode = "parsing"
    /\ HasTop(0)
    /\ Top(0).sym \in
          {"_multiline_string_fragment_1", "_multiline_string_fragment_2"}
    /\ Reduce(1, "multiline_string_fragment",
              Leaf("multiline_string_fragment", Top(0).node.text))

\* _escape_sequence: the immediate token or $.escape_sequence, in a
\* _multiline_string_literal
ReduceMultilineEscape ==
    /\ mode = "parsing"
    /\ HasTop(0) /\ Top(0).sym \in {"escape_token", "escape_sequence"}
    /\ LexState = "text_block"
    /\ Reduce(1, "_escape_sequence", Top(0).node)

\* _multiline_string_literal: '"""' repeat(choice(multiline_string_fragment,
\* _escape_sequence, string_interpolation)) '"""'
ReduceMultilineStringLiteral ==
    /\ mode = "parsing"
    /\ IsSym(0, TripleQuote) /\ ~IsOpening(Depth)
    /\ LET o == StringOpener(Depth - 1) IN
         /\ o > 0 /\ stack[o].sym = TripleQuote
         /\ \A i \in (o + 1)..(Depth - 1) :
               stack[i].sym \in {"multiline_string_fragment", "_escape_sequence",
                                 "string_interpolation"}
         /\ Reduce(Depth - o + 1, "string_literal",
                   StringLiteralNode(Nodes(o + 1, Depth - 1)))

\* _reserved_identifier: the keyword token becomes an identifier node, where
\* a name is read as an expression or as the name of a declarator.
ReduceReservedIdentifier ==
    /\ mode = "parsing"
    /\ HasTop(0) /\ Top(0).sym \in ReservedWords
    /\ \/ ExprStartAt(Depth - 1) /\ Lookahead \in ExpressionFollow
       \/ IsSym(1, "_unannotated_type") /\ Lookahead \in {"=", ";", ",", ")"}
    /\ Reduce(1, "_reserved_identifier", ReservedNode(Top(0).node.text))

\* _simple_type: alias($.identifier, $.type_identifier), in the type position
\* of a cast; primary_expression stays possible (a declared conflict).
ReduceTypeIdentifier ==
    /\ mode = "parsing"
    /\ IsSym(0, "identifier")
    /\ HasTop(1)
    /\ \/ IsSym(1, "(") /\ ~ParamStartAt(Depth - 1) /\ ~TryParenAt(Depth - 1)
       \/ IsSym(1, "&") /\ TypeRun(2) # <<>>
    /\ Lookahead \in {")", "&"}
    /\ Reduce(1, "_type", Leaf("type_identifier", Top(0).node.text))

\* expression: $.primary_expression; after '(' types ')' the second
\* alternative of cast_expression (precedence CAST) takes the operand instead.
ReduceExpression ==
    /\ mode = "parsing"
    /\ IsSym(0, "primary_expression")
    /\ ~CastPrefix(1)
    /\ Reduce(1, "expression", Top(0).node)

\* parenthesized_expression: '(' expression ')'
ReduceParenthesized ==
    /\ mode = "parsing"
    /\ IsSym(0, ")") /\ IsExpr(1) /\ IsSym(2, "(")
    /\ Reduce(3, "parenthesized_expression", ParenNode(Top(1).node))

\* primary_expression: $.parenthesized_expression
ReducePrimaryParenthesized ==
    /\ mode = "parsing"
    /\ IsSym(0, "parenthesized_expression")
    /\ ~IsSym(1, "switch")
    /\ Reduce(1, "primary_expression", Top(0).node)

\* cast_expression, first alternative: '(' type ')' expression
ReduceCast ==
    /\ mode = "parsing"
    /\ IsExpr(0) /\ CastPrefix(1) /\ Len(TypeRun(2)) = 1
    /\ ReduceWins(Lookahead)
    /\ Reduce(4, "expression", CastNode(TypeRun(2), Top(0).node))

\* cast_expression, second alternative: '(' type ('&' type)* ')' primary
ReduceCastIntersection ==
    /\ mode = "parsing"
    /\ IsSym(0, "primary_expression") /\ CastPrefix(1)
    /\ Reduce(2 * Len(TypeRun(2)) + 2, "expression",
              CastNode(TypeRun(2), Top(0).node))

ReduceBinary ==
    /\ mode = "parsing"
    /\ IsExpr(0) /\ HasTop(2) /\ Top(1).sym \in BinaryOperators /\ IsExpr(2)
    /\ ReduceWins(Lookahead)
    /\ Reduce(3, "expression",
              BinaryNode(Top(2).node, Top(1).sym, Top(0).node))

\* update_expression: seq($.expression, '++') | seq($.expression, '--')
ReducePostfixUpdate ==
    /\ mode = "parsing"
    /\ HasTop(1) /\ Top(0).sym \in UpdateOperators /\ IsExpr(1)
    /\ Reduce(2, "expression", PostfixUpdateNode(Top(1).node, Top(0).sym))

\* update_expression: seq('++', $.expression) | seq('--', $.expression)
ReducePrefixUpdate ==
    /\ mode = "parsing"
    /\ IsExpr(0) /\ HasTop(1) /\ Top(1).sym \in UpdateOperators
    /\ ReduceWins(Lookahead)
    /\ Reduce(2, "expression", PrefixUpdateNode(Top(1).sym, Top(0).node))

ReduceAssignment ==
    /\ mode = "parsing"
    /\ IsExpr(0) /\ HasTop(2) /\ Top(1).sym \in AssignmentOperators
    /\ Top(2).sym \in NameSyms
    /\ ExprStartAt(Depth - 3)
    /\ ReduceWins(Lookahead)
    /\ Reduce(3, "expression",
              AssignmentNode(Top(2).node, Top(1).sym, Top(0).node))

ReduceTernary ==
    /\ mode = "parsing"
    /\ IsExpr(0) /\ IsSym(1, ":") /\ IsExpr(2) /\ IsSym(3, "?") /\ IsExpr(4)
    /\ ReduceWins(Lookahead)
    /\ Reduce(5, "expression",
              TernaryNode(Top(4).node, Top(2).node, Top(0).node))

\* lambda_expression: identifier '->' (expression | block)
ReduceLambda ==
    /\ mode = "parsing"
    /\ IsSym(1, "->") /\ HasTop(2) /\ Top(2).sym \in NameSyms
    /\ \/ IsExpr(0) /\ ReduceWins(Lookahead)
       \/ IsSym(0, "block")
    /\ Reduce(3, "expression", LambdaNode(Top(2).node, Top(0).node))

\* expression: $.switch_expression
ReduceExpressionSwitch ==
    /\ mode = "parsing"
    /\ IsSym(0, "switch_expression")
    /\ ExprStartAt(Depth - 1)
    /\ Reduce(1, "expression", Top(0).node)

\* switch_label: 'default'
ReduceSwitchLabelDefault ==
    /\ mode = "parsing"
    /\ IsSym(0, "default")
    /\ Reduce(1, "switch_label", SwitchLabelNode(<<>>))

\* switch_label: 'case' expression
ReduceSwitchLabelCase ==
    /\ mode = "parsing"
    /\ IsExpr(0) /\ IsSym(1, "case")
    /\ Lookahead \in {":", "->"}
    /\ Reduce(2, "switch_label", SwitchLabelNode(<<Top(0).node>>))

\* expression_statement: expression ';'
ReduceExpressionStatement ==
    /\ mode = "parsing"
    /\ IsSym(0, ";") /\ IsExpr(1)
    /\ StmtStartAt(Depth - 2) \/ RuleBodyAt(Depth - 2)
    /\ Reduce(2, "expression_statement", ExpressionStatementNode(Top(1).node))

\* throw_statement: 'throw' expression ';'
ReduceThrow ==
    /\ mode = "parsing"
    /\ IsSym(0, ";") /\ IsExpr(1) /\ IsSym(2, "throw")
    /\ Reduce(3, "throw_statement", ThrowNode(Top(1).node))

\* block: '{' repeat(statement) '}'
ReduceBlock ==
    /\ mode = "parsing"
    /\ IsSym(0, "}")
    /\ InBlock(Depth - 1)
    /\ LET b == OpenBrace(Depth - 1) IN
         /\ \A i \in (b + 1)..(Depth - 1) : stack[i].sym = "statement"
         /\ Reduce(Depth - b + 1, "block", BlockNode(Nodes(b + 1, Depth - 1)))

\* _unannotated_type: integral_type
ReduceIntegralType ==
    /\ mode = "parsing"
    /\ IsSym(0, "int")
    /\ StmtStartAt(Depth - 1) \/ ParamStartAt(Depth - 1)
    /\ Reduce(1, "_unannotated_type", Leaf("integral_type", "int"))

\* _unannotated_type: alias($.identifier, $.type_identifier), where a
\* declaration may start and a declarator's name follows.
ReduceDeclaredTypeIdentifier ==
    /\ mode = "parsing"
    /\ IsSym(0, "identifier")
    /\ StmtStartAt(Depth - 1) \/ ParamStartAt(Depth - 1)
    /\ Lookahead \in NameTokens
    /\ Reduce(1, "_unannotated_type",
              Leaf("type_identifier", Top(0).node.text))

\* variable_declarator: _variable_declarator_id optional('=' expression)
ReduceVariableDeclarator ==
    /\ mode = "parsing"
    /\ Lookahead = ";"
    /\ \/ /\ IsExpr(0) /\ IsSym(1, "=")
          /\ HasTop(2) /\ Top(2).sym \in NameSyms
          /\ IsSym(3, "_unannotated_type") /\ StmtStartAt(Depth - 4)
          /\ Reduce(3, "variable_declarator",
                    VariableDeclaratorNode(Top(2).node, <<Top(0).node>>))
       \/ /\ HasTop(0) /\ Top(0).sym \in NameSyms
          /\ IsSym(1, "_unannotated_type") /\ StmtStartAt(Depth - 2)
          /\ Reduce(1, "variable_declarator",
                    VariableDeclaratorNode(Top(0).node, <<>>))

\* local_variable_declaration: _unannotated_type variable_declarator ';'
ReduceLocalVariableDeclaration ==
    /\ mode = "parsing"
    /\ IsSym(0, ";") /\ IsSym(1, "variable_declarator")
    /\ IsSym(2, "_unannotated_type") /\ StmtStartAt(Depth - 3)
    /\ Reduce(3, "local_variable_declaration",
              LocalVariableDeclarationNode(Top(2).node, <<Top(1).node>>))

\* formal_parameter: _unannotated_type _variable_declarator_id
ReduceFormalParameter ==
    /\ mode = "parsing"
    /\ HasTop(0) /\ Top(0).sym \in NameSyms
    /\ IsSym(1, "_unannotated_type") /\ ParamStartAt(Depth - 2)
    /\ Lookahead \in {",", ")"}
    /\ Reduce(2, "formal_parameter",
              FormalParameterNode(Top(1).node, Top(0).node))

\* formal_parameters: '(' commaSep(formal_parameter) ')'
ReduceFormalParameters ==
    /\ mode = "parsing"
    /\ IsSym(0, ")")
    /\ LET p == OpenParen(Depth - 1)
           n == Depth - 1 - p
       IN /\ p > 0 /\ ParamStartAt(p)
          /\ n = 0 \/ n % 2 = 1
          /\ \A i \in 1..n :
                stack[p + i].sym = IF i % 2 = 1 THEN "formal_parameter" ELSE ","
          /\ Reduce(n + 2, "formal_parameters",
                    FormalParametersNode(
                        [i \in 1..((n + 1) \div 2) |-> stack[p + 2 * i - 1].node]))

\* class_body: '{' '}'
ReduceClassBody ==
    /\ mode = "parsing"
    /\ IsSym(0, "}") /\ IsSym(1, "{") /\ IsClassBrace(Depth - 1)
    /\ Reduce(2, "class_body", ClassBodyNode(<<>>))

\* record_declaration: 'record' identifier formal_parameters class_body
ReduceRecordDeclaration ==
    /\ mode = "parsing"
    /\ IsSym(0, "class_body") /\ IsSym(1, "formal_parameters")
    /\ IsSym(2, "identifier") /\ IsSym(3, "record")
    /\ Reduce(4, "record_declaration",
              RecordDeclarationNode(Top(2).node, Top(1).node, Top(0).node))

\* class_declaration: 'class' identifier class_body
ReduceClassDeclaration ==
    /\ mode = "parsing"
    /\ IsSym(0, "class_body") /\ IsSym(1, "identifier") /\ IsSym(2, "class")
    /\ Reduce(3, "class_declaration",
              ClassDeclarationNode(Top(1).node, Top(0).node))

\* A child of a node with the field that labels it, "" when it has none.
Field(f, n) == [field |-> f, node |-> n]

\* The names at the stack entries from index i to the top, every second
\* entry (the others are the ',' between them), each labelled f.
ListedFrom(i, f) ==
    [k \in 1..((Depth - i + 1) \div 2) |->
        Field(f, stack[i + 2 * (k - 1)].node)]

\* provides_module_directive: 'provides' provided: _name 'with' _name
\*                            repeat(',' provider: _name) ';'
ReduceProvidesDirective ==
    /\ mode = "parsing"
    /\ IsSym(0, ";")
    /\ LET d == OpenDirective(Depth) IN
         /\ d > 0
         /\ stack[d].sym = "provides"
         /\ Depth >= d + 4
         /\ Reduce(Depth - d + 1, "provides_module_directive",
                   [kind |-> "provides_module_directive",
                    children |->
                       <<Field("provided", stack[d + 1].node),
                         Field("", stack[d + 3].node)>>
                          \o ListedFrom(d + 5, "provider")])

\* exports_module_directive, opens_module_directive:
\*   'exports' package: _name
\*   optional('to' modules: _name repeat(',' modules: _name)) ';'
ReduceExportsOpensDirective ==
    /\ mode = "parsing"
    /\ IsSym(0, ";")
    /\ LET d == OpenDirective(Depth) IN
         /\ d > 0
         /\ stack[d].sym \in {"exports", "opens"}
         /\ Reduce(Depth - d + 1, stack[d].sym \o "_module_directive",
                   [kind |-> stack[d].sym \o "_module_directive",
                    children |->
                       <<Field("package", stack[d + 1].node)>>
                          \o ListedFrom(d + 3, "modules")])

\* module_directive: the supertype of the directives
ReduceModuleDirective ==
    /\ mode = "parsing"
    /\ HasTop(0)
    /\ Top(0).sym \in {"provides_module_directive", "exports_module_directive",
                       "opens_module_directive"}
    /\ Reduce(1, "module_directive", Top(0).node)

\* module_body: '{' repeat($.module_directive) '}'
ReduceModuleBody ==
    /\ mode = "parsing"
    /\ IsSym(0, "}")
    /\ LET b == OpenBrace(Depth - 1) IN
         /\ b > 0
         /\ IsModuleBrace(b)
         /\ Reduce(Depth - b + 1, "module_body",
                   [kind |-> "module_body", directives |-> Nodes(b + 1, Depth - 1)])

\* module_declaration: 'module' name: _name body: module_body
ReduceModuleDeclaration ==
    /\ mode = "parsing"
    /\ IsSym(0, "module_body") /\ IsSym(1, "identifier") /\ IsSym(2, "module")
    /\ Reduce(3, "module_declaration",
              [kind |-> "module_declaration", name |-> Top(1).node,
               body |-> Top(0).node])

\* declaration: class_declaration | record_declaration | module_declaration
ReduceDeclaration ==
    /\ mode = "parsing"
    /\ HasTop(0)
    /\ Top(0).sym \in {"class_declaration", "record_declaration",
                       "module_declaration"}
    /\ Reduce(1, "declaration", Top(0).node)

\* labeled_statement: identifier ':' statement
ReduceLabeled ==
    /\ mode = "parsing"
    /\ IsSym(0, "statement") /\ IsSym(1, ":") /\ IsSym(2, "identifier")
    /\ StmtStartAt(Depth - 3)
    /\ Reduce(3, "labeled_statement", LabeledNode(Top(2).node, Top(0).node))

\* break_statement / continue_statement
ReduceJump ==
    /\ mode = "parsing"
    /\ IsSym(0, ";")
    /\ \/ /\ HasTop(1) /\ Top(1).sym \in {"break", "continue"}
          /\ Reduce(2, JumpNode(Top(1).sym, <<>>).kind,
                    JumpNode(Top(1).sym, <<>>))
       \/ /\ IsSym(1, "identifier")
          /\ HasTop(2) /\ Top(2).sym \in {"break", "continue"}
          /\ Reduce(3, JumpNode(Top(2).sym, <<>>).kind,
                    JumpNode(Top(2).sym, <<Top(1).node>>))

\* yield_statement: 'yield' expression ';'
ReduceYield ==
    /\ mode = "parsing"
    /\ IsSym(0, ";") /\ IsExpr(1) /\ IsSym(2, "yield")
    /\ StmtStartAt(Depth - 3)
    /\ Reduce(3, "yield_statement", YieldNode(Top(1).node))

\* resource: $.identifier
ReduceResource ==
    /\ mode = "parsing"
    /\ IsSym(0, "identifier") /\ IsSym(1, "(") /\ IsSym(2, "try")
    /\ Lookahead \in {")", ";"}
    /\ Reduce(1, "resource", [kind |-> "resource", name |-> Top(0).node])

\* resource_specification: '(' sep1($.resource, ';') optional(';') ')'
ReduceResourceSpecification ==
    /\ mode = "parsing"
    /\ IsSym(0, ")") /\ IsSym(1, "resource") /\ IsSym(2, "(") /\ IsSym(3, "try")
    /\ Reduce(3, "resource_specification",
              [kind |-> "resource_specification", resources |-> <<Top(1).node>>])

\* catch_type: sep1($._unannotated_type, '|')
ReduceCatchType ==
    /\ mode = "parsing"
    /\ IsSym(0, "identifier") /\ IsSym(1, "(") /\ IsSym(2, "catch")
    /\ Lookahead \in NameTokens
    /\ Reduce(1, "catch_type",
              [kind |-> "catch_type",
               types |-> <<Leaf("type_identifier", Top(0).node.text)>>])

\* catch_formal_parameter: optional($.modifiers) $.catch_type
\*                         $._variable_declarator_id
ReduceCatchFormalParameter ==
    /\ mode = "parsing"
    /\ IsSym(0, "identifier") /\ IsSym(1, "catch_type")
    /\ Lookahead = ")"
    /\ Reduce(2, "catch_formal_parameter",
              [kind |-> "catch_formal_parameter", type |-> Top(1).node,
               name |-> Top(0).node])

\* catch_clause: 'catch' '(' $.catch_formal_parameter ')' body: $.block
ReduceCatchClause ==
    /\ mode = "parsing"
    /\ IsSym(0, "block") /\ IsSym(1, ")") /\ IsSym(2, "catch_formal_parameter")
    /\ IsSym(3, "(") /\ IsSym(4, "catch")
    /\ Reduce(5, "catch_clause",
              [kind |-> "catch_clause", parameter |-> Top(2).node,
               body |-> Top(0).node])

\* finally_clause: 'finally' $.block
ReduceFinallyClause ==
    /\ mode = "parsing"
    /\ IsSym(0, "block") /\ IsSym(1, "finally")
    /\ Reduce(2, "finally_clause",
              [kind |-> "finally_clause", body |-> Top(0).node])

\* try_statement: 'try' body: $.block, then the clauses
ReduceTryStatement ==
    /\ mode = "parsing"
    /\ Lookahead \notin {"catch", "finally"}
    /\ LET t == OpenTry(Depth)
           ss == Syms(t + 1, Depth)
       IN /\ t > 0
          /\ Len(ss) >= 1
          /\ ss[1] = "block"
          /\ \A i \in 2..Len(ss) : ss[i] \in {"catch_clause", "finally_clause"}
          /\ try_statement(SubSeq(ss, 2, Len(ss)))
          /\ Reduce(Len(ss) + 1, "try_statement",
                    [kind |-> "try_statement", body |-> stack[t + 1].node,
                     clauses |-> Nodes(t + 2, Depth)])

\* try_with_resources_statement: 'try' resources: $.resource_specification
\*                               body: $.block, then the clauses
ReduceTryWithResources ==
    /\ mode = "parsing"
    /\ Lookahead \notin {"catch", "finally"}
    /\ LET t == OpenTry(Depth)
           ss == Syms(t + 1, Depth)
       IN /\ t > 0
          /\ Len(ss) >= 2
          /\ ss[1] = "resource_specification"
          /\ ss[2] = "block"
          /\ \A i \in 3..Len(ss) : ss[i] \in {"catch_clause", "finally_clause"}
          /\ try_with_resources_statement(SubSeq(ss, 3, Len(ss)))
          /\ Reduce(Len(ss) + 1, "try_with_resources_statement",
                    [kind |-> "try_with_resources_statement",
                     resources |-> stack[t + 1].node,
                     body |-> stack[t + 2].node,
                     clauses |-> Nodes(t + 3, Depth)])

\* statement: declaration | expression_statement | labeled_statement | block
\*            | ';' | break_statement | continue_statement | yield_statement
\*            | switch_expression | local_variable_declaration
\*            | throw_statement | try_statement | try_with_resources_statement
ReduceStatement ==
    /\ mode = "parsing"
    /\ HasTop(0)
    /\ Top(0).sym \in {"expression_statement", "block", ";",
                       "switch_expression", "throw_statement",
                       "declaration", "labeled_statement", "break_statement",
                       "continue_statement", "try_statement",
                       "try_with_resources_statement",
                       "yield_statement", "local_variable_declaration"}
    /\ StmtStartAt(Depth - 1)
    /\ Reduce(1, "statement", Top(0).node)

\* switch_rule: switch_label '->' (expression_statement | throw_statement
\*                                 | block)
ReduceSwitchRule ==
    /\ mode = "parsing"
    /\ HasTop(0)
    /\ Top(0).sym \in {"expression_statement", "throw_statement", "block"}
    /\ RuleBodyAt(Depth - 1)
    /\ Reduce(3, "switch_rule", SwitchRuleNode(Top(2).node, Top(0).node))

\* switch_block_statement_group: prec.left(seq(repeat1(seq(switch_label, ':')),
\* repeat(statement))).  Before a further label the reduction wins over
\* continuing the repetition (left associativity at equal precedence), so a
\* group is closed as soon as 'case', 'default' or '}' follows.
ReduceSwitchGroup ==
    /\ mode = "parsing"
    /\ Lookahead \in {"case", "default", "}"}
    /\ InSwitchBody(Depth)
    /\ \E g \in 1..(Depth - 1) :
         /\ stack[g].sym = "switch_label"
         /\ stack[g + 1].sym = ":"
         /\ \A i \in (g + 2)..Depth : stack[i].sym = "statement"
         /\ Reduce(Depth - g + 1, "switch_block_statement_group",
                   SwitchGroupNode(stack[g].node, Nodes(g + 2, Depth)))

\* switch_block: '{' choice(repeat(group), repeat(rule)) '}'
ReduceSwitchBlock ==
    /\ mode = "parsing"
    /\ IsSym(0, "}")
    /\ InSwitchBody(Depth - 1)
    /\ LET b == OpenBrace(Depth - 1) IN
         /\ switch_block(Syms(b + 1, Depth - 1))
         /\ Reduce(Depth - b + 1, "switch_block",
                   SwitchBlockNode(Nodes(b + 1, Depth - 1)))

\* switch_expression: 'switch' parenthesized_expression switch_block
ReduceSwitchExpression ==
    /\ mode = "parsing"
    /\ IsSym(0, "switch_block") /\ IsSym(1, "parenthesized_expression")
    /\ IsSym(2, "switch")
    /\ Reduce(3, "switch_expression", SwitchNode(Top(1).node, Top(0).node))

\* program: one expression or statement read to the end of the input
Accept ==
    /\ mode = "parsing"
    /\ AtEnd
    /\ Depth = 1 /\ Top(0).sym \in {"expression", "statement"}
    /\ mode' = "accepted"
    /\ UNCHANGED <<input, pos, stack, token, owners, matches, bindings>>

-----------------------------------------------------------------------------
(* Inputs *)

Operand == <<"a", "b", "c", "d", "e", "f", "g">>

\* a ops[1] b ops[2] c ...
Chain(ops) ==
    [i \in 1..(2 * Len(ops) + 1) |->
        IF i % 2 = 1 THEN Operand[(i + 1) \div 2] ELSE ops[i \div 2]]

SeqsUpTo(S, n) == UNION { [1..k -> S] : k \in 1..n }

ChainOperators == BinaryOperators \cup {"="}
TernaryOperators == {"?", ":", "=", "||"}
ParenAlphabet == {"(", ")", "&", "Foo", "bar"}

CastInputs ==
    { <<"(", "Foo", ")", "a", "=", "b">>,
      <<"(", "Foo", ")", "a", "+", "b">>,
      <<"(", "Foo", "&", "bar", ")", "bar">>,
      <<"(", "Foo", ")", "(", "bar", ")">>,
      <<"(", "Foo", ")", "(", "Foo", ")", "bar">>,
      <<"(", "a", "+", "b", ")", "*", "c">> }

ExpressionInputs ==
    { Chain(ops) : ops \in SeqsUpTo(ChainOperators, MaxOps) }
    \cup { Chain(ops) : ops \in SeqsUpTo(TernaryOperators, MaxTernaryOps) }
    \cup SeqsUpTo(ParenAlphabet, MaxParenLen)
    \cup CastInputs

Init ==
    /\ input \in ExpressionInputs
    /\ pos = 0
    /\ stack = <<>>
    /\ mode = "parsing"
    /\ token = NextToken
    /\ owners = {}
    /\ matches = {}
    /\ bindings = {}

Next ==
    \/ Shift
    \/ ReducePrimaryIdentifier
    \/ ReduceTypeIdentifier
    \/ ReduceExpression
    \/ ReduceParenthesized
    \/ ReducePrimaryParenthesized
    \/ ReduceCast
    \/ ReduceCastIntersection
    \/ ReduceBinary
    \/ ReduceAssignment
    \/ ReduceTernary
    \/ Accept

Spec == Init /\ [][Next]_vars

\* Switch bodies: 'switch' '(' 'a' ')' '{' members '}' with up to
\* MaxSwitchMembers members, each one of these token groups.
SwitchMemberTexts ==
    { <<"default", ":">>,
      <<"case", "a", ":">>,
      <<"default", "->", "a", ";">>,
      <<"case", "a", "->", "a", ";">>,
      <<"default", "->", "{", "}">>,
      <<"default", "->", "throw", "a", ";">>,
      <<"case", "a", "->", "a", ":">>,
      <<"a", ";">>,
      <<"a", "->", "a", ";">>,
      <<"{", ";", "}">>,
      <<"a", "->", "{", "}", ";">> }

RECURSIVE Flatten(_)
Flatten(ss) == IF ss = <<>> THEN <<>> ELSE Head(ss) \o Flatten(Tail(ss))

SwitchInputs ==
    { <<"switch", "(", "a", ")", "{">> \o Flatten(ms) \o <<"}">> :
        ms \in {<<>>} \cup SeqsUpTo(SwitchMemberTexts, MaxSwitchMembers) }

SwitchInit ==
    /\ input \in SwitchInputs
    /\ pos = 0
    /\ stack = <<>>
    /\ mode = "parsing"
    /\ token = NextToken
    /\ owners = {}
    /\ matches = {}
    /\ bindings = {}

SwitchNext ==
    \/ Shift
    \/ ReducePrimaryIdentifier
    \/ ReduceExpression
    \/ ReduceParenthesized
    \/ ReduceLambda
    \/ ReduceExpressionSwitch
    \/ ReduceSwitchLabelDefault
    \/ ReduceSwitchLabelCase
    \/ ReduceExpressionStatement
    \/ ReduceThrow
    \/ ReduceBlock
    \/ ReduceStatement
    \/ ReduceSwitchRule
    \/ ReduceSwitchGroup
    \/ ReduceSwitchBlock
    \/ ReduceSwitchExpression
    \/ Accept

SwitchSpec == SwitchInit /\ [][SwitchNext]_vars

\* Declarations and statements with a word w at a position of a name.
VariableName(w) == <<"int", w, "=", "5", ";">>
VariableNameOnly(w) == <<"int", w, ";">>
Label(w) == <<w, ":", ";">>
InnerLabel(w) == <<"x", ":", w, ":", ";">>
BreakLabel(w) == <<"break", w, ";">>
ContinueLabel(w) == <<"continue", w, ";">>
ClassName(w) == <<"class", w, "{", "}">>
TypeName(w) == <<w, "x", "=", "5", ";">>
AssignedName(w) == <<w, "=", "a", ";">>
ValueName(w) == <<"a", "=", w, ";">>
StatementName(w) == <<w, ";">>
YieldedName(w) == <<"yield", w, ";">>
ParameterName(w) == <<"record", "Point", "(", "int", w, ")", "{", "}">>

ParameterNames == <<"x", "y", "a", "b">>

\* 'int' x ',' 'int' y ...  with n parameters
RECURSIVE Parameters(_)
Parameters(n) ==
    IF n = 0 THEN <<>>
    ELSE IF n = 1 THEN <<"int", ParameterNames[1]>>
    ELSE Parameters(n - 1) \o <<",", "int", ParameterNames[n]>>

RecordName(w, n) == <<"record", w, "(">> \o Parameters(n) \o <<")", "{", "}">>

Words == ReservedWords \cup {"x", "Point"}

DeclarationInputs ==
    UNION { { VariableName(w), VariableNameOnly(w), Label(w), InnerLabel(w),
              BreakLabel(w), ContinueLabel(w), ClassName(w), TypeName(w),
              AssignedName(w), ValueName(w), StatementName(w),
              YieldedName(w), ParameterName(w) }
            \cup { RecordName(w, n) : n \in 0..MaxParams } : w \in Words }
    \cup { <<"break", ";">>, <<"continue", ";">> }

DeclInit ==
    /\ input \in DeclarationInputs
    /\ pos = 0
    /\ stack = <<>>
    /\ mode = "parsing"
    /\ token = NextToken
    /\ owners = {}
    /\ matches = {}
    /\ bindings = {}

DeclNext ==
    \/ Shift
    \/ ReducePrimaryIdentifier
    \/ ReduceLiteral
    \/ ReduceReservedIdentifier
    \/ ReduceExpression
    \/ ReduceAssignment
    \/ ReduceIntegralType
    \/ ReduceDeclaredTypeIdentifier
    \/ ReduceVariableDeclarator
    \/ ReduceLocalVariableDeclaration
    \/ ReduceFormalParameter
    \/ ReduceFormalParameters
    \/ ReduceClassBody
    \/ ReduceRecordDeclaration
    \/ ReduceClassDeclaration
    \/ ReduceDeclaration
    \/ ReduceLabeled
    \/ ReduceJump
    \/ ReduceYield
    \/ ReduceExpressionStatement
    \/ ReduceStatement
    \/ Accept

DeclSpec == DeclInit /\ [][DeclNext]_vars

\* String literals, character by character: the literal "sum=\\{1+2}", the
\* double-quoted literals with up to MaxContent characters between the
\* quotes, and the text blocks with up to MaxBody characters in the body.
SumLiteral ==
    <<Quote, "s", "u", "m", "=", Backslash, "{", "1", "+", "2", "}", Quote>>

ContentAlphabet == {Quote, Backslash, "{", "}", "1", "+", "="}
BodyAlphabet == {Quote, Backslash, Newline, "a"}

StringInputs ==
    {SumLiteral}
    \cup { <<Quote>> \o cs \o <<Quote>> :
             cs \in {<<>>} \cup SeqsUpTo(ContentAlphabet, MaxContent) }
    \cup { <<Quote, Quote, Quote>> \o cs \o <<Quote, Quote, Quote>> :
             cs \in {<<>>} \cup SeqsUpTo(BodyAlphabet, MaxBody) }

StringInit ==
    /\ input \in StringInputs
    /\ pos = 0
    /\ stack = <<>>
    /\ mode = "parsing"
    /\ token = NextToken
    /\ owners = {}
    /\ matches = {}
    /\ bindings = {}

StringNext ==
    \/ Shift
    \/ ReduceLiteral
    \/ ReduceExpression
    \/ ReduceBinary
    \/ ReduceStringInterpolation
    \/ ReduceStringLiteral
    \/ ReduceMultilineFragment
    \/ ReduceMultilineEscape
    \/ ReduceMultilineStringLiteral
    \/ Accept

StringSpec == StringInit /\ [][StringNext]_vars

\* 'try', with or without resources, an empty body and up to MaxClauses
\* catch and finally clauses in any order.
CatchText == <<"catch", "(", "Foo", "e", ")", "{", "}">>
FinallyText == <<"finally", "{", "}">>

TryInputs ==
    { head \o <<"{", "}">> \o
        Flatten([i \in DOMAIN cs |->
                    IF cs[i] = "catch" THEN CatchText ELSE FinallyText]) :
        head \in {<<"try">>, <<"try", "(", "a", ")">>},
        cs \in {<<>>} \cup SeqsUpTo({"catch", "finally"}, MaxClauses) }

TryInit ==
    /\ input \in TryInputs
    /\ pos = 0
    /\ stack = <<>>
    /\ mode = "parsing"
    /\ token = NextToken
    /\ owners = {}
    /\ matches = {}
    /\ bindings = {}

TryNext ==
    \/ Shift
    \/ ReduceBlock
    \/ ReduceResource
    \/ ReduceResourceSpecification
    \/ ReduceCatchType
    \/ ReduceCatchFormalParameter
    \/ ReduceCatchClause
    \/ ReduceFinallyClause
    \/ ReduceTryStatement
    \/ ReduceTryWithResources
    \/ ReduceStatement
    \/ Accept

TrySpec == TryInit /\ [][TryNext]_vars

\* A module with one directive: provides with up to MaxProviders providers,
\* exports and opens with up to MaxProviders target modules or none.
NameLists == SeqsUpTo({"b", "c"}, MaxProviders)

Listed(ns) ==
    Flatten([i \in DOMAIN ns |-> IF i = 1 THEN <<ns[i]>> ELSE <<",", ns[i]>>])

ModuleInputs ==
    { <<"module", "x", "{">> \o d \o <<";", "}">> :
        d \in { <<"provides", "a", "with">> \o Listed(ns) : ns \in NameLists }
             \cup { <<kw, "a", "to">> \o Listed(ns) :
                       kw \in {"exports", "opens"}, ns \in NameLists }
             \cup { <<"exports", "a">>, <<"opens", "a">> } }

ModuleInit ==
    /\ input \in ModuleInputs
    /\ pos = 0
    /\ stack = <<>>
    /\ mode = "parsing"
    /\ token = NextToken
    /\ owners = {}
    /\ matches = {}
    /\ bindings = {}

ModuleNext ==
    \/ Shift
    \/ ReduceProvidesDirective
    \/ ReduceExportsOpensDirective
    \/ ReduceModuleDirective
    \/ ReduceModuleBody
    \/ ReduceModuleDeclaration
    \/ ReduceDeclaration
    \/ ReduceStatement
    \/ Accept

ModuleSpec == ModuleInit /\ [][ModuleNext]_vars

\* Operands with increment/decrement operators before and after them, alone
\* and as the left or right operand of a binary operator.
UpdateRuns == {<<>>} \cup SeqsUpTo(UpdateOperators, MaxUpdates)

UpdateInputs ==
    { pre \o <<"a">> \o post : pre \in UpdateRuns, post \in UpdateRuns }
    \cup { <<"b", op>> \o pre \o <<"a">> \o post :
              op \in {"+", "*"}, pre \in UpdateRuns, post \in UpdateRuns }
    \cup { pre \o <<"a">> \o post \o <<op, "b">> :
              op \in {"+", "*"}, pre \in UpdateRuns, post \in UpdateRuns }

UpdateInit ==
    /\ input \in UpdateInputs
    /\ pos = 0
    /\ stack = <<>>
    /\ mode = "parsing"
    /\ token = NextToken
    /\ owners = {}
    /\ matches = {}
    /\ bindings = {}

UpdateNext ==
    \/ Shift
    \/ ReducePrimaryIdentifier
    \/ ReduceExpression
    \/ ReducePostfixUpdate
    \/ ReducePrefixUpdate
    \/ ReduceBinary
    \/ Accept

UpdateSpec == UpdateInit /\ [][UpdateNext]_vars

-----------------------------------------------------------------------------
(* The supertypes of the rule graph *)

supertypes ==
    <<"expression", "declaration", "statement", "primary_expression",
      "_literal", "_type", "_simple_type", "_unannotated_type",
      "module_directive">>

\* The direct alternatives of the supertype rules, by the kind of node each
\* gives: an alias by its alias, _reserved_identifier by identifier.
expression ==
    <<"assignment_expression", "binary_expression", "instanceof_expression",
      "lambda_expression", "ternary_expression", "update_expression",
      "primary_expression", "unary_expression", "cast_expression",
      "switch_expression">>

\* the declarations, with local_variable_declaration among them
declaration_with_local_variable ==
    <<"module_declaration", "package_declaration", "import_declaration",
      "class_declaration", "record_declaration", "interface_declaration",
      "annotation_type_declaration", "enum_declaration",
      "local_variable_declaration">>
declaration ==
    <<"module_declaration", "package_declaration", "import_declaration",
      "class_declaration", "record_declaration", "interface_declaration",
      "annotation_type_declaration", "enum_declaration">>

statement ==
    <<"declaration", "expression_statement", "labeled_statement",
      "if_statement", "while_statement", "for_statement",
      "enhanced_for_statement", "block", ";", "assert_statement",
      "do_statement", "break_statement", "continue_statement",
      "return_statement", "yield_statement", "switch_expression",
      "synchronized_statement", "local_variable_declaration",
      "throw_statement", "try_statement", "try_with_resources_statement">>

primary_expression ==
    <<"_literal", "class_literal", "this", "identifier", "identifier",
      "parenthesized_expression", "object_creation_expression",
      "field_access", "array_access", "method_invocation",
      "method_reference", "array_creation_expression",
      "template_expression">>

literal ==
    <<"decimal_integer_literal", "hex_integer_literal",
      "octal_integer_literal", "binary_integer_literal",
      "decimal_floating_point_literal", "hex_floating_point_literal",
      "true", "false", "character_literal", "string_literal", "null_literal">>

type == <<"_unannotated_type", "annotated_type">>

unannotated_type == <<"_simple_type", "array_type">>

simple_type ==
    <<"void_type", "integral_type", "floating_point_type", "boolean_type",
      "type_identifier", "scoped_type_identifier", "generic_type">>

module_directive ==
    <<"requires_module_directive", "exports_module_directive",
      "opens_module_directive", "uses_module_directive",
      "provides_module_directive">>

Alternatives(s) ==
    CASE s = "expression" -> expression
      [] s = "declaration" -> declaration
      [] s = "statement" -> statement
      [] s = "primary_expression" -> primary_expression
      [] s = "_literal" -> literal
      [] s = "_type" -> type
      [] s = "_simple_type" -> simple_type
      [] s = "_unannotated_type" -> unannotated_type
      [] s = "module_directive" -> module_directive

Range(f) == { f[i] : i \in DOMAIN f }

Registered == { p[1] : p \in owners }

SupertypeInit ==
    /\ input = supertypes
    /\ pos = 0
    /\ stack = <<>>
    /\ mode = "reading"
    /\ token = [sym |-> "$end", text |-> "", len |-> 0]
    /\ owners = {}
    /\ matches = {}
    /\ bindings = {}

\* One supertype rule is read: each of its alternatives is recorded as
\* belonging to it.  The rules are read in any order.
Register ==
    /\ mode = "reading"
    /\ \E s \in Range(input) \ Registered :
          owners' = owners \cup { <<s, k>> : k \in Range(Alternatives(s)) }
    /\ pos' = pos + 1
    /\ UNCHANGED <<input, stack, mode, token, matches, bindings>>

SupertypeNext == Register

SupertypeSpec == SupertypeInit /\ [][SupertypeNext]_vars

-----------------------------------------------------------------------------
(* The numeric literal and comment tokens *)

\* The rule functions of the grammar DSL as data; a regular expression is
\* written with the same functions.  A string is the sequence of its
\* characters, a character class the set of its characters.
class(cs) == [op |-> "class", args |-> <<>>, chars |-> cs]
except(cs) == [op |-> "except", args |-> <<>>, chars |-> cs]
seq(rs) == [op |-> "seq", args |-> rs, chars |-> {}]
choice(rs) == [op |-> "choice", args |-> rs, chars |-> {}]
optional(r) == [op |-> "optional", args |-> <<r>>, chars |-> {}]
repeat(r) == [op |-> "repeat", args |-> <<r>>, chars |-> {}]
repeat1(r) == [op |-> "repeat1", args |-> <<r>>, chars |-> {}]
str(cs) == seq([i \in DOMAIN cs |-> class({cs[i]})])

\* function sep1(rule, separator)
sep1(rule, separator) == seq(<<rule, repeat(seq(<<separator, rule>>))>>)

\* The offsets at which a match of rule r that starts at one of the offsets
\* of S can end.
RECURSIVE Ends(_, _)
RECURSIVE SeqEnds(_, _, _)
RECURSIVE StarEnds(_, _)
Ends(r, S) ==
    CASE r.op = "class" ->
           { i + 1 : i \in { j \in S : CharAt(j + 1) \in r.chars } }
      [] r.op = "except" ->
           { i + 1 : i \in { j \in S : j < Len(input)
                                          /\ CharAt(j + 1) \notin r.chars } }
      [] r.op = "seq" -> SeqEnds(r.args, 1, S)
      [] r.op = "choice" -> UNION { Ends(r.args[k], S) : k \in DOMAIN r.args }
      [] r.op = "optional" -> S \cup Ends(r.args[1], S)
      [] r.op = "repeat" -> StarEnds(r.args[1], S)
      [] r.op = "repeat1" -> StarEnds(r.args[1], Ends(r.args[1], S))

SeqEnds(rs, k, S) ==
    IF k > Len(rs) \/ S = {} THEN S ELSE SeqEnds(rs, k + 1, Ends(rs[k], S))

StarEnds(r, S) ==
    LET T == S \cup Ends(r, S) IN IF T = S THEN S ELSE StarEnds(r, T)

NonZeroDigits == DecimalDigits \ {"0"}
BinaryDigits == {"0", "1"}

\* const DIGITS
DIGITS ==
    choice(<<str(<<"0">>),
             seq(<<class(NonZeroDigits),
                   optional(seq(<<optional(str(<<"_">>)),
                                  sep1(repeat1(class(DecimalDigits)),
                                       repeat1(class({"_"})))>>))>>)>>)

\* const DECIMAL_DIGITS
DECIMAL_DIGITS == sep1(repeat1(class(DecimalDigits)), str(<<"_">>))

\* const HEX_DIGITS
HEX_DIGITS == sep1(repeat1(class(HexDigits)), str(<<"_">>))

IntegerSuffix == optional(choice(<<str(<<"l">>), str(<<"L">>)>>))
FloatSuffix == class({"f", "F", "d", "D"})
Sign == optional(choice(<<str(<<"-">>), str(<<"+">>)>>))
DecimalExponent == seq(<<class({"e", "E"}), Sign, DECIMAL_DIGITS>>)

decimal_integer_literal == seq(<<DIGITS, IntegerSuffix>>)

hex_integer_literal ==
    seq(<<choice(<<str(<<"0", "x">>), str(<<"0", "X">>)>>), HEX_DIGITS,
          IntegerSuffix>>)

octal_integer_literal ==
    seq(<<choice(<<str(<<"0", "o">>), str(<<"0", "O">>), str(<<"0">>)>>),
          sep1(repeat1(class(OctalDigits)), str(<<"_">>)), IntegerSuffix>>)

binary_integer_literal ==
    seq(<<choice(<<str(<<"0", "b">>), str(<<"0", "B">>)>>),
          sep1(repeat1(class(BinaryDigits)), str(<<"_">>)), IntegerSuffix>>)

decimal_floating_point_literal ==
    choice(<<
      seq(<<DECIMAL_DIGITS, str(<<".">>), optional(DECIMAL_DIGITS),
            optional(DecimalExponent), optional(FloatSuffix)>>),
      seq(<<str(<<".">>), DECIMAL_DIGITS, optional(DecimalExponent),
            optional(FloatSuffix)>>),
      seq(<<DIGITS, class({"e", "E"}), Sign, DECIMAL_DIGITS,
            optional(FloatSuffix)>>),
      seq(<<DIGITS, optional(DecimalExponent), FloatSuffix>>) >>)

hex_floating_point_literal ==
    seq(<<choice(<<str(<<"0", "x">>), str(<<"0", "X">>)>>),
          choice(<<seq(<<HEX_DIGITS, optional(str(<<".">>))>>),
                   seq(<<optional(HEX_DIGITS), str(<<".">>), HEX_DIGITS>>)>>),
          optional(seq(<<class({"p", "P"}), Sign, DIGITS,
                         optional(FloatSuffix)>>))>>)

\* the pattern with its inner group free to start with '/'
block_comment_unguarded ==
    seq(<<str(<<"/", "*">>),
          repeat(except({"*"})), repeat1(class({"*"})),
          repeat(seq(<<except({"*"}), repeat(except({"*"})),
                       repeat1(class({"*"}))>>)),
          str(<<"/">>)>>)

\* '/*', /[^*]*\*+([^/*][^*]*\*+)*/, '/'
block_comment ==
    seq(<<str(<<"/", "*">>),
          repeat(except({"*"})), repeat1(class({"*"})),
          repeat(seq(<<except({"/", "*"}), repeat(except({"*"})),
                       repeat1(class({"*"}))>>)),
          str(<<"/">>)>>)

\* The token rules in the order of the grammar; none has an explicit
\* precedence other than PREC.COMMENT.
TokenRules ==
    << [sym |-> "decimal_integer_literal", rule |-> decimal_integer_literal,
        prec |-> 0],
       [sym |-> "hex_integer_literal", rule |-> hex_integer_literal,
        prec |-> 0],
       [sym |-> "octal_integer_literal", rule |-> octal_integer_literal,
        prec |-> 0],
       [sym |-> "binary_integer_literal", rule |-> binary_integer_literal,
        prec |-> 0],
       [sym |-> "decimal_floating_point_literal",
        rule |-> decimal_floating_point_literal, prec |-> 0],
       [sym |-> "hex_floating_point_literal",
        rule |-> hex_floating_point_literal, prec |-> 0],
       [sym |-> "block_comment", rule |-> block_comment,
        prec |-> PREC.COMMENT] >>

RuleOrder(s) == CHOOSE k \in DOMAIN TokenRules : TokenRules[k].sym = s

\* Every non-empty match of a token rule at offset i.
MatchesAt(i) ==
    UNION { { [sym |-> TokenRules[k].sym, from |-> i, len |-> j - i] :
                j \in Ends(TokenRules[k].rule, {i}) \ {i} } :
            k \in DOMAIN TokenRules }

\* The longest match wins, then the higher precedence, then the rule that
\* comes first in the grammar.
LongestMatch(M) ==
    LET Key(m) == <<m.len, TokenRules[RuleOrder(m.sym)].prec,
                    0 - RuleOrder(m.sym)>>
        Better(a, b) ==
            \E k \in 1..3 : Key(a)[k] > Key(b)[k]
                               /\ \A j \in 1..(k - 1) : Key(a)[j] = Key(b)[j]
    IN CHOOSE a \in M : \A b \in M \ {a} : Better(a, b)

\* One token is lexed at the lexer's position; a character that starts no
\* token of these rules is skipped as an error.
LexToken ==
    /\ mode = "lexing"
    /\ ~AtEnd
    /\ LET M == MatchesAt(pos) IN
         /\ matches' = matches \cup M
         /\ token' = IF M = {}
                       THEN [sym |-> "ERROR", text |-> Text(1), len |-> 1]
                       ELSE [sym |-> LongestMatch(M).sym,
                             text |-> Text(LongestMatch(M).len),
                             len |-> LongestMatch(M).len]
    /\ pos' = pos + token'.len
    /\ UNCHANGED <<input, stack, mode, owners, bindings>>

LexEnd ==
    /\ mode = "lexing"
    /\ AtEnd
    /\ mode' = "lexed"
    /\ UNCHANGED <<input, pos, stack, token, owners, matches, bindings>>

LexNext == LexToken \/ LexEnd

\* Texts over the characters of the numeric literals.
LiteralAlphabet ==
    {"0", "1", "9", "x", ".", "_", "p", "e", "+", "l", "f", "b"}
DecimalAlphabet == {"0", "1", "_", "l"}

LiteralInputs ==
    SeqsUpTo(LiteralAlphabet, MaxLiteral) \cup SeqsUpTo(DecimalAlphabet, MaxDecimal)

LiteralInit ==
    /\ input \in LiteralInputs
    /\ pos = 0
    /\ stack = <<>>
    /\ mode = "lexing"
    /\ token = [sym |-> "$end", text |-> "", len |-> 0]
    /\ owners = {}
    /\ matches = {}
    /\ bindings = {}

LiteralSpec == LiteralInit /\ [][LexNext]_vars

\* Texts over '/', '*' and another character.
CommentAlphabet == {"/", "*", "a"}

CommentInit ==
    /\ input \in SeqsUpTo(CommentAlphabet, MaxComment)
    /\ pos = 0
    /\ stack = <<>>
    /\ mode = "lexing"
    /\ token = [sym |-> "$end", text |-> "", len |-> 0]
    /\ owners = {}
    /\ matches = {}
    /\ bindings = {}

CommentSpec == CommentInit /\ [][LexNext]_vars

-----------------------------------------------------------------------------
(* The rules in which a field name occurs more than once *)

\* $.name and field(name, rule) of the grammar DSL
sym(n) == [op |-> "sym", args |-> <<>>, chars |-> {n}]
field(n, r) == [op |-> "field", args |-> <<r>>, chars |-> {n}]

\* function commaSep1(rule), function commaSep(rule)
commaSep1(rule) == seq(<<rule, repeat(seq(<<str(<<",">>), rule>>))>>)
commaSep(rule) == optional(commaSep1(rule))

\* prec(PREC.CAST, choice(...)); the precedence labels no child
cast_expression ==
    choice(<<
      seq(<<str(<<"(">>), field("type", sym("_type")), str(<<")">>),
            field("value", sym("expression"))>>),
      seq(<<str(<<"(">>), sep1(field("type", sym("_type")), str(<<"&">>)),
            str(<<")">>),
            field("value", choice(<<sym("primary_expression"),
                                    sym("lambda_expression")>>))>>) >>)

array_creation_expression ==
    seq(<<str(<<"new">>), repeat(sym("_annotation")),
          field("type", sym("_simple_type")),
          choice(<<
            seq(<<field("dimensions", repeat1(sym("dimensions_expr"))),
                  field("dimensions", optional(sym("dimensions")))>>),
            seq(<<field("dimensions", sym("dimensions")),
                  field("value", sym("array_initializer"))>>) >>)>>)

method_invocation ==
    seq(<<
      choice(<<
        field("name", choice(<<sym("identifier"), sym("_reserved_identifier")>>)),
        seq(<<field("object", choice(<<sym("primary_expression"), sym("super")>>)),
              str(<<".">>),
              optional(seq(<<sym("super"), str(<<".">>)>>)),
              field("type_arguments", optional(sym("type_arguments"))),
              field("name", choice(<<sym("identifier"),
                                     sym("_reserved_identifier")>>))>>) >>),
      field("arguments", sym("argument_list")) >>)

for_statement ==
    seq(<<str(<<"for">>), str(<<"(">>),
          choice(<<field("init", sym("local_variable_declaration")),
                   seq(<<commaSep(field("init", sym("expression"))),
                         str(<<";">>)>>)>>),
          field("condition", optional(sym("expression"))), str(<<";">>),
          commaSep(field("update", sym("expression"))), str(<<")">>),
          field("body", sym("statement"))>>)

\* the targets after the first labelled as plain identifiers
exports_module_directive_mixed ==
    seq(<<str(<<"exports">>), field("package", sym("_name")),
          optional(seq(<<str(<<"to">>), field("modules", sym("_name")),
                         repeat(seq(<<str(<<",">>),
                                      field("modules", sym("identifier"))>>))>>)),
          str(<<";">>)>>)

exports_module_directive ==
    seq(<<str(<<"exports">>), field("package", sym("_name")),
          optional(seq(<<str(<<"to">>), field("modules", sym("_name")),
                         repeat(seq(<<str(<<",">>),
                                      field("modules", sym("_name"))>>))>>)),
          str(<<";">>)>>)

opens_module_directive ==
    seq(<<str(<<"opens">>), field("package", sym("_name")),
          optional(seq(<<str(<<"to">>), field("modules", sym("_name")),
                         repeat(seq(<<str(<<",">>),
                                      field("modules", sym("_name"))>>))>>)),
          str(<<";">>)>>)

explicit_constructor_invocation ==
    seq(<<
      choice(<<
        seq(<<field("type_arguments", optional(sym("type_arguments"))),
              field("constructor", choice(<<sym("this"), sym("super")>>))>>),
        seq(<<field("object", choice(<<sym("primary_expression")>>)),
              str(<<".">>),
              field("type_arguments", optional(sym("type_arguments"))),
              field("constructor", sym("super"))>>) >>),
      field("arguments", sym("argument_list")),
      str(<<";">>) >>)

FieldRules ==
    << <<"cast_expression", cast_expression>>,
       <<"array_creation_expression", array_creation_expression>>,
       <<"method_invocation", method_invocation>>,
       <<"for_statement", for_statement>>,
       <<"exports_module_directive", exports_module_directive>>,
       <<"opens_module_directive", opens_module_directive>>,
       <<"explicit_constructor_invocation", explicit_constructor_invocation>> >>

\* The node kinds a rule can produce as children: the symbols it names.
RECURSIVE Kinds(_)
Kinds(r) ==
    IF r.op = "sym" THEN r.chars
    ELSE UNION { Kinds(r.args[k]) : k \in DOMAIN r.args }

\* The occurrences of fields in a rule, each with the kinds it can label.
RECURSIVE Occurrences(_)
Occurrences(r) ==
    IF r.op = "field" THEN { <<CHOOSE n \in r.chars : TRUE, Kinds(r.args[1])>> }
    ELSE UNION { Occurrences(r.args[k]) : k \in DOMAIN r.args }

FieldInit ==
    /\ input = [i \in DOMAIN FieldRules |-> FieldRules[i][1]]
    /\ pos = 0
    /\ stack = <<>>
    /\ mode = "reading"
    /\ token = [sym |-> "$end", text |-> "", len |-> 0]
    /\ owners = {}
    /\ matches = {}
    /\ bindings = {}

\* One rule is read: each occurrence of a field in it is recorded with the
\* kinds it can label.  The rules are read in any order.
RegisterFields ==
    /\ mode = "reading"
    /\ \E i \in DOMAIN FieldRules :
          /\ FieldRules[i][1] \notin { b[1] : b \in bindings }
          /\ bindings' = bindings \cup
                { <<FieldRules[i][1], o[1], o[2]>> :
                     o \in Occurrences(FieldRules[i][2]) }
    /\ pos' = pos + 1
    /\ UNCHANGED <<input, stack, mode, token, owners, matches>>

FieldNext == RegisterFields

FieldSpec == FieldInit /\ [][FieldNext]_vars

-----------------------------------------------------------------------------
(* Properties *)

Root == stack[1].node
Id(t) == Leaf("identifier", t)
Accepted == mode = "accepted"

\* The binding levels of the binary operators as the precedence table's
\* documentation states them (OR 4 < AND 5 < ... < MULT 13).
StatedLevel(op) ==
    CASE op = "||" -> 4
      [] op = "&&" -> 5
      [] op = "|" -> 6
      [] op = "^" -> 7
      [] op = "&" -> 8
      [] op \in {"==", "!="} -> 9
      [] op \in {"<", ">", "<=", ">="} -> 10
      [] op \in {"<<", ">>", ">>>"} -> 11
      [] op \in {"+", "-"} -> 12
      [] op \in {"*", "/", "%"} -> 13

LeftNested(op1, op2) ==
    BinaryNode(BinaryNode(Id("a"), op1, Id("b")), op2, Id("c"))
RightNested(op1, op2) ==
    BinaryNode(Id("a"), op1, BinaryNode(Id("b"), op2, Id("c")))

IsBinaryChain ==
    /\ Len(input) % 2 = 1
    /\ \A i \in 1..Len(input) :
          IF i % 2 = 1 THEN input[i] = Operand[(i + 1) \div 2]
          ELSE input[i] \in BinaryOperators

\* C1: for two binary operators of different levels, a op1 b op2 c is parsed
\* (the parser never gets stuck on it) and the operator of the higher level
\* forms the binary_expression that is an operand of the other one; in
\* a + b * c the right field of + is b * c.
C1_PrecedenceNesting ==
    /\ (IsBinaryChain /\ ~ENABLED Next) => Accepted
    /\ Accepted =>
         \A op1, op2 \in BinaryOperators :
            (input = Chain(<<op1, op2>>) /\ StatedLevel(op1) # StatedLevel(op2))
            => Root = IF StatedLevel(op1) < StatedLevel(op2)
                      THEN RightNested(op1, op2)
                      ELSE LeftNested(op1, op2)

C1_Witness ==
    /\ Accepted
    /\ input = <<"a", "+", "b", "*", "c">>
    /\ Root.operator = "+"
    /\ Root.right = BinaryNode(Id("b"), "*", Id("c"))

\* C2: each of the 19 binary operators is left-associative at its level: for
\* two operators of the same level, a op1 b op2 c parses as (a op1 b) op2 c.
C2_LeftAssociative ==
    /\ Cardinality(BinaryOperators) = 19
    /\ Accepted =>
         \A op1, op2 \in BinaryOperators :
            (input = Chain(<<op1, op2>>) /\ StatedLevel(op1) = StatedLevel(op2))
            => Root = LeftNested(op1, op2)

C2_Witness ==
    /\ Accepted
    /\ input = <<"a", "-", "b", "-", "c">>
    /\ Root = LeftNested("-", "-")

\* C3: assignment and ternary are right-associative: a = b = c is an
\* assignment whose right field is the assignment b = c, and
\* a ? b : c ? d : e is a ternary whose alternative is the ternary c ? d : e.
C3_RightAssociative ==
    Accepted =>
      /\ input = <<"a", "=", "b", "=", "c">> =>
            Root = AssignmentNode(Id("a"), "=",
                                  AssignmentNode(Id("b"), "=", Id("c")))
      /\ input = <<"a", "?", "b", ":", "c", "?", "d", ":", "e">> =>
            Root = TernaryNode(Id("a"), Id("b"),
                               TernaryNode(Id("c"), Id("d"), Id("e")))

C3_Witness ==
    /\ Accepted
    /\ input = <<"a", "?", "b", ":", "c", "?", "d", ":", "e">>
    /\ Root.alternative = TernaryNode(Id("c"), Id("d"), Id("e"))

\* C4: ( X ) Y, a parenthesized type name followed by an operand, parses as a
\* cast_expression with type X and value Y; ( Y ) with nothing after it
\* parses as a parenthesized_expression and never as a cast.
C4_CastVersusGroup ==
    Accepted =>
      \A X, Y \in {"Foo", "bar"} :
         /\ input = <<"(", X, ")", Y>> =>
               /\ Root.kind = "cast_expression"
               /\ Root.type = <<Leaf("type_identifier", X)>>
               /\ Root.value = Id(Y)
         /\ input = <<"(", Y, ")">> => Root = ParenNode(Id(Y))

C4_Witness ==
    /\ Accepted
    /\ input = <<"(", "Foo", ")", "bar">>
    /\ Root.kind = "cast_expression"
    /\ Root.value = Id("bar")

MemberKinds(block) == { block.members[i].kind : i \in DOMAIN block.members }

Contains(text) ==
    \E i \in 0..(Len(input) - Len(text)) :
        SubSeq(input, i + 1, i + Len(text)) = text

ColonLabelled == Contains(<<"default", ":">>) \/ Contains(<<"case", "a", ":">>)
ArrowLabelled ==
    Contains(<<"default", "->">>) \/ Contains(<<"case", "a", "->", "a", ";">>)

\* C5: no switch_block contains both a switch_block_statement_group and a
\* switch_rule: the members of every switch_block built are all statement
\* groups or all arrow rules, and no input that has both a colon-labelled
\* group and an arrow rule in its switch body is accepted.
C5_SwitchBlockNotMixed ==
    /\ \A i \in 1..Depth :
          stack[i].sym = "switch_block" =>
              \/ MemberKinds(stack[i].node) \subseteq {"switch_block_statement_group"}
              \/ MemberKinds(stack[i].node) \subseteq {"switch_rule"}
    /\ Accepted =>
          /\ Root.kind = "switch_expression"
          /\ Cardinality(MemberKinds(Root.body)) <= 1
          /\ ~(ColonLabelled /\ ArrowLabelled)

C5_Witness ==
    /\ Accepted
    /\ Len(Root.body.members) = 2
    /\ MemberKinds(Root.body) = {"switch_rule"}
    /\ ArrowLabelled

\* C6: the spelling record gives different node kinds by position:
\* int record = 5; is parsed, as a local_variable_declaration whose declarator
\* has the identifier node record as its name, and
\* record Point(int x, int y) {} is parsed, as a record_declaration with the
\* name Point and two formal parameters.
C6_RecordByPosition ==
    /\ input = VariableName("record") =>
          /\ ~ENABLED DeclNext => Accepted
          /\ Accepted =>
                /\ Root.kind = "local_variable_declaration"
                /\ Len(Root.declarators) = 1
                /\ Root.declarators[1].name = Id("record")
    /\ input = RecordName("Point", 2) =>
          /\ ~ENABLED DeclNext => Accepted
          /\ Accepted =>
                /\ Root.kind = "record_declaration"
                /\ Root.name = Id("Point")
                /\ Len(Root.parameters.parameters) = 2
                /\ \A i \in 1..2 :
                      Root.parameters.parameters[i].kind = "formal_parameter"

C6_Witness ==
    /\ Accepted
    /\ input = VariableName("record")
    /\ Root.kind = "local_variable_declaration"
    /\ Root.declarators[1].name = Id("record")

\* The inputs that have the word w where the grammar takes an ordinary
\* identifier: as the name of a class or a record, as a statement label, as
\* the label of a break or continue, as a type name, as a variable name.
NamePositions(w) ==
    { ClassName(w), Label(w), InnerLabel(w), BreakLabel(w), ContinueLabel(w),
      TypeName(w), VariableName(w) }
        \cup { RecordName(w, n) : n \in 0..MaxParams }

\* C7: each of the spellings open, module, record, with, sealed, yield is
\* accepted wherever an ordinary identifier is, and gives an identifier node
\* there: the parse of an input that has the spelling as a class or record
\* name, a statement label, a break or continue label, a type name or a
\* variable name ends accepted, with the spelling as that name.
C7_ReservedIsIdentifierEverywhere ==
    \A w \in ReservedWords :
       /\ input \in NamePositions(w) => (~ENABLED DeclNext => Accepted)
       /\ Accepted =>
             /\ input = ClassName(w) => Root.name = Id(w)
             /\ input \in { RecordName(w, n) : n \in 0..MaxParams } =>
                   Root.name = Id(w)
             /\ input = Label(w) =>
                   Root.kind = "labeled_statement" /\ Root.label = Id(w)
             /\ input \in {BreakLabel(w), ContinueLabel(w)} =>
                   Root.label = <<Id(w)>>
             /\ input = TypeName(w) =>
                   Root.kind = "local_variable_declaration"
             /\ input = VariableName(w) =>
                   Root.declarators[1].name = Id(w)

Decimal(t) == Leaf("decimal_integer_literal", t)

\* C8: in a double-quoted string literal the characters \\{ always open a
\* string_interpolation and are never an escape_sequence: wherever the content
\* of the literal continues with \\{ the lexer gives the opening token of the
\* interpolation, no escape_sequence has that text, and "sum=\\{1+2}" is parsed
\* as a string_literal of the fragment sum= and one string_interpolation whose
\* expression is the binary_expression 1 + 2.
C8_InterpolationOpens ==
    /\ ( /\ mode = "parsing"
         /\ LexState = "string"
         /\ CharAt(pos + 1) = Backslash
         /\ CharAt(pos + 2) = "{" ) => token.sym = InterpolationOpen
    /\ \A i \in 1..Depth :
          stack[i].sym = "escape_sequence" =>
              stack[i].node.text # InterpolationOpen
    /\ input = SumLiteral =>
          /\ ~ENABLED StringNext => Accepted
          /\ Accepted =>
                Root = StringLiteralNode(
                         << Leaf("string_fragment", "sum="),
                            StringInterpolationNode(
                                BinaryNode(Decimal("1"), "+", Decimal("2"))) >>)

C8_Witness ==
    /\ Accepted
    /\ input = SumLiteral
    /\ Len(Root.children) = 2
    /\ Root.children[2].kind = "string_interpolation"

IsTextBlock ==
    Len(input) >= 6 /\ \A i \in 1..3 : input[i] = Quote

\* Index of the first """ at or after index i whose first quote is not
\* escaped by a backslash, 0 when there is none.
RECURSIVE FirstUnescapedTripleQuote(_)
FirstUnescapedTripleQuote(i) ==
    IF i > Len(input) THEN 0
    ELSE IF input[i] = Backslash THEN FirstUnescapedTripleQuote(i + 2)
    ELSE IF CharAt(i) = Quote /\ CharAt(i + 1) = Quote /\ CharAt(i + 2) = Quote
      THEN i
    ELSE FirstUnescapedTripleQuote(i + 1)

\* C9: a text block is terminated only by an unescaped """: in the body the
\* lexer never passes the first unescaped """, gives the closing token exactly
\* there, and takes every other raw quote as the start of a
\* multiline_string_fragment; the literal is accepted exactly when that """
\* ends the input.
C9_TextBlockTermination ==
    IsTextBlock =>
      /\ (mode = "parsing" /\ LexState = "text_block") =>
            /\ \/ FirstUnescapedTripleQuote(4) = 0
               \/ pos + 1 <= FirstUnescapedTripleQuote(4)
            /\ token.sym = TripleQuote <=> pos + 1 = FirstUnescapedTripleQuote(4)
            /\ ( /\ CharAt(pos + 1) = Quote
                 /\ pos + 1 # FirstUnescapedTripleQuote(4) ) =>
                   token.sym = "_multiline_string_fragment_2"
      /\ ~ENABLED StringNext =>
            (Accepted <=> FirstUnescapedTripleQuote(4) = Len(input) - 2)
      /\ Accepted =>
            /\ Root.kind = "string_literal"
            /\ \A i \in DOMAIN Root.children :
                  Root.children[i].kind \in
                      {"multiline_string_fragment", "escape_sequence", "token"}

C9_Witness ==
    /\ Accepted
    /\ IsTextBlock
    /\ \E i \in 4..(Len(input) - 4) :
          /\ input[i] = Quote /\ input[i + 1] = Quote
          /\ input[i - 1] \notin {Quote, Backslash}
    /\ \E i \in 4..(Len(input) - 3) : input[i] = "a" /\ input[i - 1] = Quote
    /\ \E i \in DOMAIN Root.children :
          Root.children[i].kind = "multiline_string_fragment"

\* The supertypes recorded for a node kind.
SupertypesOf(k) == { p[1] : p \in { q \in owners : q[2] = k } }

\* C10 as stated: no node kind is a direct alternative of more than one of
\* the nine supertype rules.
C10_NoSharedKind ==
    \A p, q \in owners : p[2] = q[2] => p[1] = q[1]

\* C10: no node kind other than switch_expression is a direct alternative of
\* more than one of the nine supertype rules; switch_expression is an
\* alternative of expression and of statement, and of no other supertype.
C10_OnlySwitchExpressionShared ==
    /\ \A p, q \in owners :
          (p[2] = q[2] /\ p[1] # q[1]) => p[2] = "switch_expression"
    /\ SupertypesOf("switch_expression") \subseteq {"expression", "statement"}
    /\ {"expression", "statement"} \subseteq Registered =>
          SupertypesOf("switch_expression") = {"expression", "statement"}

C10_Witness ==
    /\ Registered = Range(supertypes)
    /\ SupertypesOf("switch_expression") = {"expression", "statement"}

\* The tree in which every postfix operator of post is applied to e before
\* any prefix operator of pre.
RECURSIVE PostfixFirst(_, _, _)
PostfixFirst(pre, e, post) ==
    IF post # <<>>
      THEN PostfixFirst(pre, PostfixUpdateNode(e, Head(post)), Tail(post))
    ELSE IF pre # <<>>
      THEN PrefixUpdateNode(Head(pre), PostfixFirst(Tail(pre), e, <<>>))
    ELSE e

\* C11: an operand with both a prefix and a postfix increment/decrement
\* (++a++, --a--, ++a--) parses with the postfix form bound first: the
\* prefix update_expression applied to the postfix update_expression.
C11_PostfixBindsFirst ==
    Accepted =>
      \A pre, post \in UpdateRuns \ {<<>>} :
         input = pre \o <<"a">> \o post =>
            Root = PostfixFirst(pre, Id("a"), post)

\* The kinds of numeric literal.
NumericKinds ==
    {"decimal_integer_literal", "hex_integer_literal", "octal_integer_literal",
     "binary_integer_literal", "decimal_floating_point_literal",
     "hex_floating_point_literal"}

\* The token kinds that match the whole input.
FullMatches ==
    { m.sym : m \in { n \in matches : n.from = 0 /\ n.len = Len(input) } }

\* C12: no text is matched in full by two different kinds among the six
\* numeric literal tokens, so that the longest match decides the kind.
C12_LiteralsUnambiguous ==
    \A k1, k2 \in FullMatches \cap NumericKinds : k1 = k2

\* The texts the decimal integers are stated to have: the digit 0, or a
\* nonzero digit followed by digits and underscores that ends in a digit,
\* underscores allowed alike between any two digits; then an optional l or L.
StatedDecimal(s) ==
    LET n == IF s # <<>> /\ s[Len(s)] \in {"l", "L"} THEN Len(s) - 1 ELSE Len(s)
    IN /\ n > 0
       /\ \/ n = 1 /\ s[1] = "0"
          \/ /\ s[1] \in NonZeroDigits
             /\ s[n] \in DecimalDigits
             /\ \A i \in 1..n : s[i] \in DecimalDigits \cup {"_"}

\* C15: decimal_integer_literal matches exactly the digit 0 or a nonzero
\* digit followed by digit groups separated by underscores, with an optional
\* l/L suffix, and a run of underscores between two digits is treated the
\* same directly after the first digit as later (1__0 like 10__0).
C15_DecimalShapeUniform ==
    pos > 0 => ("decimal_integer_literal" \in FullMatches <=> StatedDecimal(input))

\* A text that starts with /*, ends with a later */ and has no */ before.
StatedComment(s) ==
    /\ Len(s) >= 4
    /\ s[1] = "/" /\ s[2] = "*"
    /\ s[Len(s) - 1] = "*" /\ s[Len(s)] = "/"
    /\ \A j \in 3..(Len(s) - 2) : ~(s[j] = "*" /\ s[j + 1] = "/")

\* C16: block_comment matches exactly the texts that start with /*, end with
\* */ (its star not the opening one) and contain no earlier */: at every
\* offset a block comment ends at the first */ after its /*.
C16_BlockCommentEndsAtFirstClose ==
    /\ pos > 0 =>
          \A n \in 1..Len(input) :
             [sym |-> "block_comment", from |-> 0, len |-> n] \in matches
                <=> StatedComment(SubSeq(input, 1, n))
    /\ \A m \in matches :
          m.sym = "block_comment" =>
             /\ StatedComment(SubSeq(input, m.from + 1, m.from + m.len))
             /\ (m.from < pos /\ pos <= m.from + m.len) =>
                   token.sym = "block_comment" /\ pos = m.from + m.len

C16_Witness ==
    /\ mode = "lexed"
    /\ input = <<"/", "*", "*", "/", "a", "*", "/">>
    /\ [sym |-> "block_comment", from |-> 0, len |-> 4] \in matches
    /\ ~\E m \in matches : m.from = 0 /\ m.len # 4

\* The clause keywords of the input, in order.
ClauseWords == SelectSeq(input, LAMBDA w : w \in {"catch", "finally"})

WithResources == Len(input) > 1 /\ input[2] = "("

\* no catch after the first finally, and at most one finally
CatchesThenFinally(ws) ==
    \A i \in 1..(Len(ws) - 1) : ws[i] = "catch"

\* C14 as stated: a try_with_resources_statement is accepted only when its
\* clauses are those of a plain try_statement, one or more catch clauses or
\* catch clauses followed by a finally clause, and never without any clause.
C14_ResourceTryLikePlainTry ==
    (Accepted /\ WithResources) =>
       ClauseWords # <<>> /\ CatchesThenFinally(ClauseWords)

\* C14: a try_with_resources_statement is accepted exactly when its body is
\* followed by zero or more catch clauses and then at most one finally
\* clause, so also without any clause; a plain try_statement is accepted
\* exactly when in addition it has at least one clause.
C14_TryClauses ==
    LET Stated == /\ CatchesThenFinally(ClauseWords)
                  /\ WithResources \/ ClauseWords # <<>>
    IN /\ Accepted => Stated
       /\ (mode = "parsing" /\ ~ENABLED TryNext) => ~Stated

C14_Witness ==
    /\ Accepted
    /\ input = <<"try", "(", "a", ")", "{", "}">>
    /\ Root.kind = "try_with_resources_statement"
    /\ Root.clauses = <<>>

\* C17: in a provides_module_directive every provider name after 'with', the
\* first as well as those after a comma, is labelled provider, just as every
\* target module of exports/opens is labelled modules.
C17_EveryProviderLabelled ==
    Accepted =>
      LET d == Root.body.directives[1] IN
        \A i \in 2..Len(d.children) :
           d.children[i].field =
              (IF d.kind = "provides_module_directive" THEN "provider"
               ELSE "modules")

MixedFields ==
    { <<"cast_expression", "value",
        {{"expression"}, {"primary_expression", "lambda_expression"}}>>,
      <<"array_creation_expression", "dimensions",
        {{"dimensions_expr"}, {"dimensions"}}>>,
      <<"for_statement", "init",
        {{"local_variable_declaration"}, {"expression"}}>>,
      <<"explicit_constructor_invocation", "constructor",
        {{"this", "super"}, {"super"}}>> }

====
